---------------------------- MODULE Spec2Model ----------------------------
(***************************************************************************)
(* A model of the chunk scheduling engine of swagger_to_ui:                *)
(*                                                                         *)
(*   - src/core/rate_limiting.py: TokenBucket, TokenMetrics and            *)
(*     AzureOpenAIRateLimiter (SpecLimiter);                               *)
(*   - src/core/parallel_processing.py: ParallelUIGenerator's              *)
(*     _execute_tasks_parallel and _process_task_with_retries              *)
(*     (SpecScheduler), generate_ui_parallel (SpecGenerate);               *)
(*   - src/core/advanced_chunking.py: AdvancedAPIChunker's                 *)
(*     create_intelligent_chunks (SpecChunker).                            *)
(*                                                                         *)
(* Units.  Durations and instants are held in milliseconds.  A bucket's    *)
(* level is held in units of 1/TokenUnit of a token, TokenUnit being       *)
(* 60 * 1000, so that the refill of a bucket of the limiter                *)
(* (capacity / 60.0 tokens per second) is `capacity' units per             *)
(* millisecond and every level, refill and wait of the model is a whole    *)
(* number (WaitsAreExact states it).                                       *)
(***************************************************************************)
EXTENDS Integers, Sequences, FiniteSets, TLC

VARIABLES
    \* ---- AzureOpenAIRateLimiter (rate_limiting.py) ----
    now,               \* time.time(), in ms
    token_bucket,      \* self.token_bucket   : TokenBucket
    request_bucket,    \* self.request_bucket : TokenBucket
    adaptive_backoff,  \* self.adaptive_backoff
    current_backoff,   \* self.current_backoff, in ms
    metrics,           \* self.metrics : TokenMetrics
    recent_requests,   \* len(self.recent_requests), a deque(maxlen=100)
    call,              \* per caller: the acquire_tokens call it is in
    last_attempt,      \* what the latest consume attempt of acquire_tokens did
    ops,               \* calls made to the limiter so far
    \* ---- ParallelUIGenerator (parallel_processing.py) ----
    max_workers,       \* self.max_workers
    api_semaphore,     \* the value of asyncio.Semaphore(self.max_workers)
    task,              \* per task: where its coroutine is, and its record
    done_queue,        \* results of finished tasks as_completed has not
                       \* handed out yet, in completion order
    completed_results, \* completed_results of _execute_tasks_parallel
    sched,             \* _execute_tasks_parallel itself
    counters,          \* self.successful_chunks, failed_chunks,
                       \* total_tokens_used
    step,              \* what the latest step of a task did
    \* ---- generate_ui_parallel and its caller ----
    gen,               \* one request: where it is, and what it has built
    \* ---- AdvancedAPIChunker (advanced_chunking.py) ----
    chunker,           \* one create_intelligent_chunks call: where it is,
                       \* its arguments and what it has built
    scoring            \* one _analyze_schema_complexity call: its schema
                       \* and the stack of its recursive calls

limiterVars == <<now, token_bucket, request_bucket, adaptive_backoff,
                 current_backoff, metrics, recent_requests, call,
                 last_attempt, ops>>

schedulerVars == <<max_workers, api_semaphore, task, done_queue,
                   completed_results, sched, counters, step>>

vars == <<now, token_bucket, request_bucket, adaptive_backoff,
          current_backoff, metrics, recent_requests, call, last_attempt, ops,
          max_workers, api_semaphore, task, done_queue, completed_results,
          sched, counters, step, gen, chunker, scoring>>

----------------------------------------------------------------------------
(* Bounds of the model *)

NumCallers == 2
MaxOps == 3
NumTasks == 2
MaxNowSeconds == 130
MaxChunks == 11
MaxResults == 3

(* Units *)
Milli == 10 * 100
SecondsPerMinute == 60
TokenUnit == SecondsPerMinute * Milli

MaxNow == MaxNowSeconds * Milli

Min(a, b) == IF a <= b THEN a ELSE b
Max(a, b) == IF a >= b THEN a ELSE b

----------------------------------------------------------------------------
(* TokenBucket *)

\* TokenBucket(capacity, tokens, refill_rate) with __post_init__'s cap;
\* rate is in tokens per minute (refill_rate * 60).
NewBucket(capacity, tokens, rate_per_minute, t) ==
    [capacity    |-> capacity,
     tokens      |-> Min(tokens, capacity) * TokenUnit,
     refill_rate |-> rate_per_minute,
     last_refill |-> t]

\* A plausible slip: the refill forgets the cap at capacity.
RefillUncapped(b, t) ==
    [b EXCEPT !.tokens = b.tokens + (t - b.last_refill) * b.refill_rate,
              !.last_refill = t]

\* A plausible slip: the refill forgets what the bucket held.
RefillFromEmpty(b, t) ==
    [b EXCEPT !.tokens = Min(b.capacity * TokenUnit,
                             (t - b.last_refill) * b.refill_rate),
              !.last_refill = t]

\* A plausible slip: the refill fills the bucket.
RefillToCapacity(b, t) ==
    [b EXCEPT !.tokens = b.capacity * TokenUnit, !.last_refill = t]

\* TokenBucket._refill at time t.
Refill(b, t) ==
    [b EXCEPT !.tokens = Min(b.capacity * TokenUnit,
                             b.tokens + (t - b.last_refill) * b.refill_rate),
              !.last_refill = t]

\* A plausible slip: a consume that grants without lowering the bucket.
ConsumeKeepsLevel(b, tokens_needed, t) ==
    LET r == Refill(b, t) IN
    [ok |-> r.tokens >= tokens_needed * TokenUnit, bucket |-> r]

\* TokenBucket.consume: the outcome and the bucket afterwards.
Consume(b, tokens_needed, t) ==
    LET r == Refill(b, t) IN
    IF r.tokens >= tokens_needed * TokenUnit
    THEN [ok |-> TRUE,
          bucket |-> [r EXCEPT !.tokens = r.tokens - tokens_needed * TokenUnit]]
    ELSE [ok |-> FALSE, bucket |-> r]

\* TokenBucket.wait_time: the wait in ms and the (refilled) bucket.
WaitTime(b, tokens_needed, t) ==
    LET r == Refill(b, t) IN
    [wait   |-> IF r.tokens >= tokens_needed * TokenUnit
                THEN 0
                ELSE (tokens_needed * TokenUnit - r.tokens) \div r.refill_rate,
     bucket |-> r]

\* TokenBucket.utilization, in 1/TokenUnit (TokenUnit is 1.0), and the
\* (refilled) bucket.
Utilization(b, t) ==
    LET r == Refill(b, t) IN
    [value  |-> (r.capacity * TokenUnit - r.tokens) \div r.capacity,
     bucket |-> r]

----------------------------------------------------------------------------
(* Error texts.  An error's text is a sequence of words; the substring     *)
(* tests of the code are made word by word.                                *)

ErrorTexts ==
    { <<"Error", "code", "429">>,
      <<"Rate", "limit", "exceeded", "Retry", "after", "20", "seconds">>,
      <<"Failed", "to", "acquire", "tokens", "within", "timeout">>,
      <<"connection", "reset">> }

\* str.lower() on a word.
Lower(w) ==
    CASE w = "Rate"  -> "rate"
      [] w = "Retry" -> "retry"
      [] w = "Error" -> "error"
      [] w = "Failed" -> "failed"
      [] OTHER -> w

\* The words that are digit strings, with float(...) of each, in seconds.
NumberValue == [w \in {"429", "20"} |-> IF w = "429" THEN 429 ELSE 20]

\* `"retry after" in error_str` and re.search(r'retry.after.(\d+)', error_str)
\* on the lowered text: the delay in seconds, or 0 when none is stated.
StatedRetryDelay(msg) ==
    LET hits == { i \in 1..(Len(msg) - 2) :
                    /\ Lower(msg[i]) = "retry"
                    /\ Lower(msg[i + 1]) = "after"
                    /\ msg[i + 2] \in DOMAIN NumberValue }
    IN  IF hits = {} THEN 0
        ELSE NumberValue[msg[(CHOOSE i \in hits : \A j \in hits : i <= j) + 2]]

----------------------------------------------------------------------------
(* AzureOpenAIRateLimiter *)

CallerIds == 1..NumCallers

\* Constructor arguments of the limiters of the model: the limits per
\* minute; the safety margins are the defaults, in percent.
TpmLimits == {4}
RpmLimits == {2}
tpm_safety_margin == 85
rpm_safety_margin == 90

\* Arguments of acquire_tokens: estimated_tokens, and timeout in ms.
TokenRequests == {0, 2, 4}
Timeouts == {1 * Milli, 180 * Milli}

\* How far time may advance in one step besides up to a sleeper's wake-up.
TimeSteps == {60 * Milli}

base_backoff == 1 * Milli
max_backoff == 300 * Milli
backoff_multiplier == 2
default_suggested_wait == 60 * Milli
recent_requests_maxlen == 100

\* A plausible slip: the safety margin is not applied.
SafeLimitUnderated(limit, margin_percent) == limit

\* int(limit * margin)
SafeLimit(limit, margin_percent) == (limit * margin_percent) \div 100

NewMetrics ==
    [tokens_used |-> 0, requests_made |-> 0,
     total_wait_time |-> 0, rate_limit_hits |-> 0, successful_requests |-> 0]

\* A plausible slip: `=' for `+=' on the two sums.
AddRequestOverwrites(m, tokens, wait_time, success) ==
    [m EXCEPT !.tokens_used = tokens,
              !.requests_made = @ + 1,
              !.total_wait_time = wait_time,
              !.rate_limit_hits = IF success THEN @ ELSE @ + 1,
              !.successful_requests = IF success THEN @ + 1 ELSE @]

\* TokenMetrics.add_request.  last_request_time, which nothing reads, is
\* left out of the state.
AddRequest(m, tokens, wait_time, success) ==
    [m EXCEPT !.tokens_used = @ + tokens,
              !.requests_made = @ + 1,
              !.total_wait_time = @ + wait_time,
              !.rate_limit_hits = IF success THEN @ ELSE @ + 1,
              !.successful_requests = IF success THEN @ + 1 ELSE @]

IdleCall ==
    [pc |-> "idle", estimated_tokens |-> 0, timeout |-> 0,
     required_wait |-> 0, wake_at |-> 0, result |-> "none"]

NoAttempt ==
    [caller |-> 0, phase |-> "none", estimated_tokens |-> 0,
     token_taken |-> 0, request_taken |-> 0, ok |-> FALSE]

\* AzureOpenAIRateLimiter.__init__ at time 0.
InitLimiter ==
    /\ now = 0
    /\ \E tpm \in TpmLimits, rpm \in RpmLimits :
         LET safe_tpm == SafeLimit(tpm, tpm_safety_margin)
             safe_rpm == SafeLimit(rpm, rpm_safety_margin)
         IN  /\ token_bucket = NewBucket(safe_tpm, safe_tpm, safe_tpm, 0)
             /\ request_bucket = NewBucket(safe_rpm, safe_rpm, safe_rpm, 0)
    /\ adaptive_backoff \in BOOLEAN
    /\ current_backoff = base_backoff
    /\ metrics = NewMetrics
    /\ recent_requests = 0
    /\ call = [p \in CallerIds |-> IdleCall]
    /\ last_attempt = NoAttempt
    /\ ops = 0

\* token_bucket.consume(estimated_tokens) and request_bucket.consume(1):
\* `and' does not evaluate its second operand when the first is false.
ConsumeBoth(tb, rb, estimated_tokens, t) ==
    LET tc == Consume(tb, estimated_tokens, t) IN
    IF tc.ok
    THEN LET rc == Consume(rb, 1, t) IN
         [ok |-> rc.ok, tb |-> tc.bucket, rb |-> rc.bucket]
    ELSE [ok |-> FALSE, tb |-> tc.bucket, rb |-> rb]

\* What a consume attempt took from each bucket, past the refill it made.
AttemptRecord(p, phase, n, c) ==
    [caller |-> p, phase |-> phase, estimated_tokens |-> n,
     token_taken |-> Refill(token_bucket, now).tokens - c.tb.tokens,
     request_taken |->
        IF c.rb.last_refill = request_bucket.last_refill
           /\ c.rb.tokens = request_bucket.tokens
        THEN 0
        ELSE Refill(request_bucket, now).tokens - c.rb.tokens,
     ok |-> c.ok]

\* _record_successful_acquisition
RecordSuccessfulAcquisition(tokens, wait_time) ==
    /\ metrics' = AddRequest(metrics, tokens, wait_time, TRUE)
    /\ recent_requests' = Min(recent_requests + 1, recent_requests_maxlen)

\* The wait computed after a failed immediate consume, and the buckets as
\* the two wait_time calls leave them.
RequiredWait(tb, rb, estimated_tokens, t) ==
    LET tw == WaitTime(tb, estimated_tokens, t)
        rw == WaitTime(rb, 1, t)
        w  == Max(tw.wait, rw.wait)
    IN  [wait |-> IF adaptive_backoff THEN Max(w, current_backoff) ELSE w,
         tb |-> tw.bucket, rb |-> rw.bucket]

\* acquire_tokens up to its first suspension or return: the immediate
\* consume, and on failure the wait and the timeout test.
AcquireTokens(p, estimated_tokens, timeout) ==
    /\ call[p].pc = "idle"
    /\ ops < MaxOps
    /\ ops' = ops + 1
    /\ LET c == ConsumeBoth(token_bucket, request_bucket, estimated_tokens, now)
       IN  /\ last_attempt' = AttemptRecord(p, "immediate", estimated_tokens, c)
           /\ IF c.ok
              THEN /\ token_bucket' = c.tb
                   /\ request_bucket' = c.rb
                   /\ RecordSuccessfulAcquisition(estimated_tokens, 0)
                   /\ call' = [call EXCEPT ![p] =
                                 [IdleCall EXCEPT !.result = "true"]]
              ELSE LET w == RequiredWait(c.tb, c.rb, estimated_tokens, now) IN
                   /\ token_bucket' = w.tb
                   /\ request_bucket' = w.rb
                   /\ UNCHANGED <<metrics, recent_requests>>
                   /\ call' = [call EXCEPT ![p] =
                        IF w.wait > timeout
                        THEN [IdleCall EXCEPT !.result = "false"]
                        ELSE [pc |-> "sleeping",
                              estimated_tokens |-> estimated_tokens,
                              timeout |-> timeout,
                              required_wait |-> w.wait,
                              wake_at |-> now + w.wait,
                              result |-> "none"]]
    /\ UNCHANGED <<now, adaptive_backoff, current_backoff>>
    /\ UNCHANGED schedulerVars
    /\ UNCHANGED <<gen, chunker, scoring>>

\* A plausible slip: a second consume that leaves current_backoff alone.
AcquireRetryKeepsBackoff(p) ==
    /\ call[p].pc = "sleeping"
    /\ now >= call[p].wake_at
    /\ LET n == call[p].estimated_tokens
           c == ConsumeBoth(token_bucket, request_bucket, n, now)
       IN  /\ last_attempt' = AttemptRecord(p, "retry", n, c)
           /\ token_bucket' = c.tb
           /\ request_bucket' = c.rb
           /\ IF c.ok
              THEN /\ RecordSuccessfulAcquisition(n, call[p].required_wait)
                   /\ call' = [call EXCEPT ![p] =
                                 [IdleCall EXCEPT !.result = "true"]]
              ELSE /\ UNCHANGED <<metrics, recent_requests>>
                   /\ call' = [call EXCEPT ![p] =
                                 [IdleCall EXCEPT !.result = "false"]]
    /\ UNCHANGED <<now, adaptive_backoff, current_backoff, ops>>
    /\ UNCHANGED schedulerVars
    /\ UNCHANGED <<gen, chunker, scoring>>

\* acquire_tokens after asyncio.sleep(required_wait): the second consume.
AcquireRetry(p) ==
    /\ call[p].pc = "sleeping"
    /\ now >= call[p].wake_at
    /\ LET n == call[p].estimated_tokens
           c == ConsumeBoth(token_bucket, request_bucket, n, now)
       IN  /\ last_attempt' = AttemptRecord(p, "retry", n, c)
           /\ token_bucket' = c.tb
           /\ request_bucket' = c.rb
           /\ IF c.ok
              THEN /\ RecordSuccessfulAcquisition(n, call[p].required_wait)
                   /\ current_backoff' =
                        IF adaptive_backoff
                        THEN Max(base_backoff, (current_backoff * 8) \div 10)
                        ELSE current_backoff
                   /\ call' = [call EXCEPT ![p] =
                                 [IdleCall EXCEPT !.result = "true"]]
              ELSE /\ UNCHANGED <<metrics, recent_requests>>
                   /\ current_backoff' =
                        IF adaptive_backoff
                        THEN Min(max_backoff,
                                 current_backoff * backoff_multiplier)
                        ELSE current_backoff
                   /\ call' = [call EXCEPT ![p] =
                                 [IdleCall EXCEPT !.result = "false"]]
    /\ UNCHANGED <<now, adaptive_backoff, ops>>
    /\ UNCHANGED schedulerVars
    /\ UNCHANGED <<gen, chunker, scoring>>

\* A plausible slip: the backoff is not applied to the value returned.
SuggestedWaitUnfloored(msg) ==
    LET stated == StatedRetryDelay(msg)
    IN  IF stated > 0 THEN stated * Milli ELSE default_suggested_wait

\* handle_rate_limit_error(error): the state change; the value returned is
\* SuggestedWait.
SuggestedWait(msg) ==
    LET stated == StatedRetryDelay(msg)
        suggested == IF stated > 0 THEN stated * Milli
                     ELSE default_suggested_wait
    IN  IF adaptive_backoff THEN Max(suggested, current_backoff) ELSE suggested

\* A plausible slip: the backoff doubles without a ceiling.
HandleRateLimitErrorUncapped(msg) ==
    /\ ops < MaxOps
    /\ ops' = ops + 1
    /\ metrics' = AddRequest(metrics, 0, 0, FALSE)
    /\ current_backoff' =
         IF adaptive_backoff
         THEN current_backoff * backoff_multiplier
         ELSE current_backoff
    /\ UNCHANGED <<now, token_bucket, request_bucket, adaptive_backoff,
                   recent_requests, call, last_attempt>>
    /\ UNCHANGED schedulerVars
    /\ UNCHANGED <<gen, chunker, scoring>>

HandleRateLimitError(msg) ==
    /\ ops < MaxOps
    /\ ops' = ops + 1
    /\ metrics' = AddRequest(metrics, 0, 0, FALSE)
    /\ current_backoff' =
         IF adaptive_backoff
         THEN Min(max_backoff, current_backoff * backoff_multiplier)
         ELSE current_backoff
    /\ UNCHANGED <<now, token_bucket, request_bucket, adaptive_backoff,
                   recent_requests, call, last_attempt>>
    /\ UNCHANGED schedulerVars
    /\ UNCHANGED <<gen, chunker, scoring>>

\* What get_status reports of a bucket: `int(bucket.tokens)` is read first,
\* from the bucket as the last access left it, and `bucket.utilization`
\* afterwards, which refills the bucket to the time t before it computes.
BucketStatus(b, t) ==
    [capacity    |-> b.capacity,
     available   |-> b.tokens \div TokenUnit,
     utilization |-> Utilization(b, t).value]

\* The dictionary that get_status returns in the present state.
StatusReturned ==
    [token_bucket     |-> BucketStatus(token_bucket, now),
     request_bucket   |-> BucketStatus(request_bucket, now),
     metrics          |-> metrics,
     adaptive_backoff |-> [enabled         |-> adaptive_backoff,
                           current_backoff |-> current_backoff,
                           base_backoff    |-> base_backoff]]

\* get_status: reading each bucket's utilization refills the bucket.
GetStatus ==
    /\ ops < MaxOps
    /\ ops' = ops + 1
    /\ token_bucket' = Utilization(token_bucket, now).bucket
    /\ request_bucket' = Utilization(request_bucket, now).bucket
    /\ UNCHANGED <<now, adaptive_backoff, current_backoff, metrics,
                   recent_requests, call, last_attempt>>
    /\ UNCHANGED schedulerVars
    /\ UNCHANGED <<gen, chunker, scoring>>

\* reset_metrics
ResetMetrics ==
    /\ ops < MaxOps
    /\ ops' = ops + 1
    /\ metrics' = NewMetrics
    /\ recent_requests' = 0
    /\ current_backoff' = base_backoff
    /\ UNCHANGED <<now, token_bucket, request_bucket, adaptive_backoff,
                   call, last_attempt>>
    /\ UNCHANGED schedulerVars
    /\ UNCHANGED <<gen, chunker, scoring>>

\* Time passes: by a step, or up to the end of a caller's sleep.
Advance ==
    /\ \E t \in { now + d : d \in TimeSteps }
               \cup { call[p].wake_at : p \in CallerIds } :
         /\ t > now
         /\ t <= MaxNow
         /\ now' = t
    /\ UNCHANGED <<token_bucket, request_bucket, adaptive_backoff,
                   current_backoff, metrics, recent_requests, call,
                   last_attempt, ops>>
    /\ UNCHANGED schedulerVars
    /\ UNCHANGED <<gen, chunker, scoring>>

NextLimiter ==
    \/ \E p \in CallerIds, n \in TokenRequests, timeout \in Timeouts :
         AcquireTokens(p, n, timeout)
    \/ \E p \in CallerIds : AcquireRetry(p)
    \/ \E msg \in ErrorTexts : HandleRateLimitError(msg)
    \/ GetStatus
    \/ ResetMetrics
    \/ Advance


\* Every wait and every level of the model is a whole number of units.
WaitsAreExact ==
    /\ token_bucket.tokens % token_bucket.refill_rate = 0
    /\ request_bucket.tokens % request_bucket.refill_rate = 0

----------------------------------------------------------------------------
(* ParallelUIGenerator: _execute_tasks_parallel and                        *)
(* _process_task_with_retries.  The rate limiter and the token optimizer   *)
(* are the collaborators handed to the constructor; here each call to them *)
(* has every outcome its interface allows: acquire_tokens returns true or  *)
(* false or raises, handle_rate_limit_error returns a delay.  The global   *)
(* deadline may elapse at any moment.                                      *)

TaskIds == 1..NumTasks

default_max_workers == 3
max_retries == 3

\* The worker counts of the model: one permit, and the default.
WorkerCounts == {1, default_max_workers}

\* Delays handle_rate_limit_error may return, in ms.
RetryDelays == {20 * Milli, 60 * Milli}

\* task.chunk.estimated_tokens
ChunkTokens(t) == 1000 * t

\* Texts of the errors the collaborators raise in the model.
RaisedTexts ==
    { <<"Rate", "limit", "exceeded", "Retry", "after", "20", "seconds">>,
      <<"connection", "reset">> }

\* raise Exception("Failed to acquire tokens within timeout")
AcquireFailedText == <<"Failed", "to", "acquire", "tokens", "within", "timeout">>

\* The ImportError of _process_chunk_async's imports, which are outside
\* its try.
ImportErrorText == <<"No", "module", "named", "langchain_openai">>

\* "429" in error_msg or "rate limit" in error_msg.lower()
IsRateLimitShaped(msg) ==
    \E i \in 1..Len(msg) :
        \/ msg[i] = "429"
        \/ /\ i < Len(msg)
           /\ Lower(msg[i]) = "rate"
           /\ Lower(msg[i + 1]) = "limit"

\* for attempt in range(task.max_retries + 1)
MaxAttempts == max_retries + 1

\* None, in a field of ProcessingResult that is Optional[str]; no text is
\* this one, and the empty string is <<>>.
None == <<"None">>

NoResult ==
    [task_id |-> 0, success |-> FALSE, ui_content |-> None,
     error |-> None, retry_count |-> 0, tokens_used |-> 0]

\* A plausible slip: error="" for a result that has no error.
SuccessResultEmptyError(t, ui_content, attempt) ==
    [task_id |-> t, success |-> TRUE, ui_content |-> ui_content,
     error |-> <<>>, retry_count |-> attempt, tokens_used |-> ChunkTokens(t)]

\* ProcessingResult(task_id, success=True, ui_content, tokens_used, retry_count)
SuccessResult(t, ui_content, attempt) ==
    [task_id |-> t, success |-> TRUE, ui_content |-> ui_content,
     error |-> None, retry_count |-> attempt, tokens_used |-> ChunkTokens(t)]

\* ProcessingResult(task_id, success=False, error, retry_count)
FailureResult(t, msg, attempt) ==
    [task_id |-> t, success |-> FALSE, ui_content |-> None,
     error |-> msg, retry_count |-> attempt, tokens_used |-> 0]

\* ProcessingTask, and where its coroutine is:
\*   pending     created, not yet holding a permit
\*   acquire     in rate_limiter.acquire_tokens
\*   generate    in _process_chunk_async
\*   retry_wait  in asyncio.sleep(wait_time) after a rate-limit error
\*   done        process_single_task has returned
\* holding tells that the coroutine is inside `async with api_semaphore';
\* acquire_calls counts the calls of acquire_tokens made for the task,
\* only_acquire_false tells that every attempt so far ended by acquire_tokens
\* returning false, and acquire_ok that acquire_tokens has returned true in
\* the attempt that is running.
NewTask(t) ==
    [pc |-> "pending", holding |-> FALSE, attempt |-> 0, retry_count |-> 0,
     acquire_calls |-> 0, only_acquire_false |-> TRUE,
     acquire_ok |-> FALSE, sleep_for |-> 0, result |-> NoResult]

\* What the latest step did when it ran the except block of a task: the
\* task, the error's text, the calls of handle_rate_limit_error it made and
\* the delay that returned.  NoStep after every other step.
NoStep ==
    [task |-> 0, kind |-> "none", error |-> <<>>, handled |-> 0, delay |-> 0]

\* _execute_tasks_parallel up to its first suspension: the semaphore, the
\* deadline and one coroutine per task.
InitBatch ==
    /\ api_semaphore = max_workers
    /\ task = [t \in TaskIds |-> NewTask(t)]
    /\ done_queue = <<>>
    /\ completed_results = <<>>
    /\ sched = [pc |-> "running", deadline_elapsed |-> FALSE, returned |-> <<>>]
    /\ counters = [successful_chunks |-> 0, failed_chunks |-> 0,
                   total_tokens_used |-> 0]
    /\ step = NoStep

InitScheduler ==
    /\ max_workers \in WorkerCounts
    /\ InitBatch

\* A plausible slip: the loop goes round without counting the attempt.
NextAttemptSameIndex(tk) ==
    [tk EXCEPT !.pc = "acquire",
               !.acquire_calls = tk.acquire_calls + 1,
               !.acquire_ok = FALSE,
               !.sleep_for = 0]

\* The loop's next iteration: the next attempt calls acquire_tokens.
NextAttempt(tk) ==
    [tk EXCEPT !.pc = "acquire",
               !.attempt = tk.attempt + 1,
               !.acquire_calls = tk.acquire_calls + 1,
               !.acquire_ok = FALSE,
               !.sleep_for = 0]

\* A plausible slip: the result is emitted and the coroutine goes on.
FinishKeepsRunning(t, tk, result) ==
    /\ task' = [task EXCEPT ![t] = [tk EXCEPT !.result = result]]
    /\ api_semaphore' = api_semaphore
    /\ done_queue' = Append(done_queue, result)

\* A plausible slip: the result is emitted and the permit is kept.
FinishKeepsPermit(t, tk, result) ==
    /\ task' = [task EXCEPT ![t] = [tk EXCEPT !.pc = "done",
                                              !.acquire_ok = FALSE,
                                              !.sleep_for = 0,
                                              !.result = result]]
    /\ api_semaphore' = api_semaphore
    /\ done_queue' = Append(done_queue, result)

\* process_single_task returns `result': the permit is released and
\* as_completed queues the result.
Finish(t, tk, result) ==
    /\ task' = [task EXCEPT ![t] = [tk EXCEPT !.pc = "done",
                                              !.holding = FALSE,
                                              !.acquire_ok = FALSE,
                                              !.sleep_for = 0,
                                              !.result = result]]
    /\ api_semaphore' = api_semaphore + 1
    /\ done_queue' = Append(done_queue, result)

\* "Maximum retries exceeded", the result after the loop.
RetriesExceededText == <<"Maximum", "retries", "exceeded">>

\* The for loop goes on: to its next iteration, which calls acquire_tokens,
\* or past its end to the return that follows it.
LoopContinues(t, tk) ==
    IF tk.attempt + 1 < MaxAttempts
    THEN /\ task' = [task EXCEPT ![t] = NextAttempt(tk)]
         /\ UNCHANGED <<api_semaphore, done_queue>>
    ELSE Finish(t, tk, FailureResult(t, RetriesExceededText, 0))

\* A plausible slip: an error that is not rate-limit-shaped fails the task
\* at once.
HandleExceptionFailFast(t, tk, msg) ==
    IF IsRateLimitShaped(msg)
    THEN \E d \in RetryDelays :
           /\ step' = [task |-> t, kind |-> "fail", error |-> msg,
                       handled |-> 1, delay |-> d]
           /\ IF tk.attempt < max_retries
              THEN /\ task' = [task EXCEPT ![t] =
                                 [tk EXCEPT !.pc = "retry_wait",
                                            !.acquire_ok = FALSE,
                                            !.sleep_for = d]]
                   /\ UNCHANGED <<api_semaphore, done_queue>>
              ELSE Finish(t, tk, FailureResult(t, msg, tk.attempt))
    ELSE /\ step' = [task |-> t, kind |-> "fail", error |-> msg,
                     handled |-> 0, delay |-> 0]
         /\ Finish(t, tk, FailureResult(t, msg, tk.attempt))

\* A plausible slip: the rate-limit branch sleeps and retries without
\* consulting the limiter.
HandleExceptionNoHandle(t, tk, msg) ==
    /\ step' = [task |-> t, kind |-> "fail", error |-> msg,
                handled |-> 0, delay |-> 0]
    /\ IF IsRateLimitShaped(msg) /\ tk.attempt < max_retries
       THEN \E d \in RetryDelays :
              /\ task' = [task EXCEPT ![t] =
                            [tk EXCEPT !.pc = "retry_wait",
                                       !.acquire_ok = FALSE,
                                       !.sleep_for = d]]
              /\ UNCHANGED <<api_semaphore, done_queue>>
       ELSE IF tk.attempt = max_retries
            THEN Finish(t, tk, FailureResult(t, msg, tk.attempt))
            ELSE LoopContinues(t, tk)

\* The except block of _process_task_with_retries for an exception with
\* text msg raised in attempt tk.attempt, up to the task's next suspension
\* or return.
HandleException(t, tk, msg) ==
    IF IsRateLimitShaped(msg)
    THEN \* wait_time = self.rate_limiter.handle_rate_limit_error(e)
         \E d \in RetryDelays :
           /\ step' = [task |-> t, kind |-> "fail", error |-> msg,
                       handled |-> 1, delay |-> d]
           /\ IF tk.attempt < max_retries
              THEN \* await asyncio.sleep(wait_time); continue
                   /\ task' = [task EXCEPT ![t] =
                                 [tk EXCEPT !.pc = "retry_wait",
                                            !.acquire_ok = FALSE,
                                            !.sleep_for = d]]
                   /\ UNCHANGED <<api_semaphore, done_queue>>
              ELSE IF tk.attempt = max_retries
                   THEN Finish(t, tk, FailureResult(t, msg, tk.attempt))
                   ELSE LoopContinues(t, tk)
    ELSE /\ step' = [task |-> t, kind |-> "fail", error |-> msg,
                     handled |-> 0, delay |-> 0]
         /\ IF tk.attempt = max_retries
            THEN Finish(t, tk, FailureResult(t, msg, tk.attempt))
            ELSE LoopContinues(t, tk)

\* A plausible slip: the permit is taken without waiting for one.
ObtainPermitUnchecked(t) ==
    /\ task[t].pc = "pending"
    /\ api_semaphore' = api_semaphore - 1
    /\ task' = [task EXCEPT ![t] = [NextAttempt(task[t]) EXCEPT !.attempt = 0,
                                                                !.holding = TRUE]]
    /\ step' = NoStep
    /\ UNCHANGED <<max_workers, done_queue, completed_results, sched, counters>>
    /\ UNCHANGED limiterVars
    /\ UNCHANGED <<gen, chunker, scoring>>

\* process_single_task: `async with api_semaphore', then the first attempt
\* of _process_task_with_retries up to its call of acquire_tokens.
ObtainPermit(t) ==
    /\ task[t].pc = "pending"
    /\ api_semaphore > 0
    /\ api_semaphore' = api_semaphore - 1
    /\ task' = [task EXCEPT ![t] = [NextAttempt(task[t]) EXCEPT !.attempt = 0,
                                                                !.holding = TRUE]]
    /\ step' = NoStep
    /\ UNCHANGED <<max_workers, done_queue, completed_results, sched, counters>>
    /\ UNCHANGED limiterVars
    /\ UNCHANGED <<gen, chunker, scoring>>

\* A plausible slip: the result of acquire_tokens is not tested.
AcquireReturnsFalseIgnored(t) ==
    /\ task[t].pc = "acquire"
    /\ task' = [task EXCEPT ![t] =
                  [@ EXCEPT !.pc = "generate"]]
    /\ step' = NoStep
    /\ UNCHANGED <<max_workers, api_semaphore, done_queue, completed_results,
                   sched, counters>>
    /\ UNCHANGED limiterVars
    /\ UNCHANGED <<gen, chunker, scoring>>

\* acquire_tokens returns false: the attempt raises.
AcquireReturnsFalse(t) ==
    /\ task[t].pc = "acquire"
    /\ HandleException(t, task[t], AcquireFailedText)
    /\ UNCHANGED <<max_workers, completed_results, sched, counters>>
    /\ UNCHANGED limiterVars
    /\ UNCHANGED <<gen, chunker, scoring>>

\* acquire_tokens raises.
AcquireRaises(t, msg) ==
    /\ task[t].pc = "acquire"
    /\ HandleException(t, [task[t] EXCEPT !.only_acquire_false = FALSE], msg)
    /\ UNCHANGED <<max_workers, completed_results, sched, counters>>
    /\ UNCHANGED limiterVars
    /\ UNCHANGED <<gen, chunker, scoring>>

\* acquire_tokens returns true and _optimize_chunk_for_processing raises.
OptimizeRaises(t, msg) ==
    /\ task[t].pc = "acquire"
    /\ HandleException(t, [task[t] EXCEPT !.only_acquire_false = FALSE], msg)
    /\ UNCHANGED <<max_workers, completed_results, sched, counters>>
    /\ UNCHANGED limiterVars
    /\ UNCHANGED <<gen, chunker, scoring>>

\* acquire_tokens returns true, the chunk is optimised and
\* _process_chunk_async is called.
AcquireReturnsTrue(t) ==
    /\ task[t].pc = "acquire"
    /\ task' = [task EXCEPT ![t] =
                  [@ EXCEPT !.pc = "generate",
                            !.only_acquire_false = FALSE,
                            !.acquire_ok = TRUE]]
    /\ step' = NoStep
    /\ UNCHANGED <<max_workers, api_semaphore, done_queue, completed_results,
                   sched, counters>>
    /\ UNCHANGED limiterVars
    /\ UNCHANGED <<gen, chunker, scoring>>

\* What the language model call inside _process_chunk_async does: it
\* returns content (`text' is the content as cleaned up and stripped, which
\* is the empty string when the model answers with white space or with an
\* empty code block), or raises an error with a text.  The except clause of
\* _process_chunk_async treats every error alike, so one text stands for
\* them: the rate-limit text, which the retry logic looks for.
ServiceOutcomes ==
    { [raised |-> FALSE, text |-> <<"html">>],
      [raised |-> FALSE, text |-> <<>>] }
        \cup { [raised |-> TRUE, text |-> msg] :
                   msg \in {m \in RaisedTexts : IsRateLimitShaped(m)} }

\* The fallback HTML, which quotes the error's text.
FallbackHtml(msg) == <<"error-fallback">> \o msg

\* _process_chunk_async's own except: every error of the call becomes the
\* fallback HTML, which is returned.
ChunkContent(outcome) ==
    IF outcome.raised THEN FallbackHtml(outcome.text) ELSE outcome.text

\* _process_chunk_async returns; the attempt returns a success result.
GenerationReturns(t, outcome) ==
    /\ task[t].pc = "generate"
    /\ Finish(t, task[t],
              SuccessResult(t, ChunkContent(outcome), task[t].attempt))
    /\ counters' = [counters EXCEPT !.total_tokens_used = @ + ChunkTokens(t)]
    /\ step' = NoStep
    /\ UNCHANGED <<max_workers, completed_results, sched>>
    /\ UNCHANGED limiterVars
    /\ UNCHANGED <<gen, chunker, scoring>>

\* _process_chunk_async raises: its imports fail.
GenerationRaises(t) ==
    /\ task[t].pc = "generate"
    /\ HandleException(t, task[t], ImportErrorText)
    /\ UNCHANGED <<max_workers, completed_results, sched, counters>>
    /\ UNCHANGED limiterVars
    /\ UNCHANGED <<gen, chunker, scoring>>

\* asyncio.sleep(wait_time) ends; `continue'.
RetryWake(t) ==
    /\ task[t].pc = "retry_wait"
    /\ LoopContinues(t, task[t])
    /\ step' = NoStep
    /\ UNCHANGED <<max_workers, completed_results, sched, counters>>
    /\ UNCHANGED limiterVars
    /\ UNCHANGED <<gen, chunker, scoring>>

\* A plausible slip: results are still collected once the deadline has
\* elapsed.
CollectAnyTime ==
    /\ done_queue # <<>>
    /\ LET result == Head(done_queue)
           results == Append(completed_results, result)
       IN  /\ done_queue' = Tail(done_queue)
           /\ completed_results' = results
           /\ counters' =
                IF result.success
                THEN [counters EXCEPT !.successful_chunks = @ + 1]
                ELSE [counters EXCEPT !.failed_chunks = @ + 1]
           /\ sched' = IF Len(results) = NumTasks
                       THEN [sched EXCEPT !.pc = "returned",
                                          !.returned = results]
                       ELSE sched
    /\ step' = NoStep
    /\ UNCHANGED <<max_workers, api_semaphore, task>>
    /\ UNCHANGED limiterVars
    /\ UNCHANGED <<gen, chunker, scoring>>

\* The loop over as_completed receives the next result.  After the last
\* one the loop ends and the function returns.
Collect ==
    /\ sched.pc = "running"
    /\ done_queue # <<>>
    /\ LET result == Head(done_queue)
           results == Append(completed_results, result)
       IN  /\ done_queue' = Tail(done_queue)
           /\ completed_results' = results
           /\ counters' =
                IF result.success
                THEN [counters EXCEPT !.successful_chunks = @ + 1]
                ELSE [counters EXCEPT !.failed_chunks = @ + 1]
           /\ sched' = IF Len(results) = NumTasks
                       THEN [sched EXCEPT !.pc = "returned",
                                          !.returned = results]
                       ELSE sched
    /\ step' = NoStep
    /\ UNCHANGED <<max_workers, api_semaphore, task>>
    /\ UNCHANGED limiterVars
    /\ UNCHANGED <<gen, chunker, scoring>>

\* asyncio.timeout(self.global_timeout) expires: the function's wait for
\* the next result is cancelled.  The tasks are left as they are.
DeadlineElapses ==
    /\ sched.pc = "running"
    /\ sched' = [sched EXCEPT !.pc = "cancelled", !.deadline_elapsed = TRUE]
    /\ step' = NoStep
    /\ UNCHANGED <<max_workers, api_semaphore, task, done_queue,
                   completed_results, counters>>
    /\ UNCHANGED limiterVars
    /\ UNCHANGED <<gen, chunker, scoring>>

\* except asyncio.TimeoutError: ...; return completed_results
ReturnAfterDeadline ==
    /\ sched.pc = "cancelled"
    /\ sched' = [sched EXCEPT !.pc = "returned",
                              !.returned = completed_results]
    /\ step' = NoStep
    /\ UNCHANGED <<max_workers, api_semaphore, task, done_queue,
                   completed_results, counters>>
    /\ UNCHANGED limiterVars
    /\ UNCHANGED <<gen, chunker, scoring>>

NextScheduler ==
    \/ \E t \in TaskIds : ObtainPermit(t)
    \/ \E t \in TaskIds : AcquireReturnsTrue(t)
    \/ \E t \in TaskIds : AcquireReturnsFalse(t)
    \/ \E t \in TaskIds, msg \in RaisedTexts : AcquireRaises(t, msg)
    \/ \E t \in TaskIds, msg \in RaisedTexts : OptimizeRaises(t, msg)
    \/ \E t \in TaskIds, outcome \in ServiceOutcomes :
         GenerationReturns(t, outcome)
    \/ \E t \in TaskIds : GenerationRaises(t)
    \/ \E t \in TaskIds : RetryWake(t)
    \/ Collect
    \/ DeadlineElapses
    \/ ReturnAfterDeadline

----------------------------------------------------------------------------
(* ParallelUIGenerator._merge_results_intelligent, as a function of the    *)
(* result list.  A result is [task_id, success, ui_content, tokens_used];  *)
(* task_id is the position i of the task's chunk in the chunk list, which  *)
(* stands for the string f"chunk_{i}_{chunk.chunk_id}"; ui_content is a    *)
(* sequence, <<>> for None and for the empty string.                       *)

\* str(i) as character codes ("0" is 48).
RECURSIVE Digits(_)
Digits(i) ==
    IF i < 10 THEN <<48 + i>>
    ELSE Append(Digits(i \div 10), 48 + (i % 10))

\* The task id's text after the common prefix "chunk_": str(i) and "_"
\* (95).  No two of these texts are a prefix of one another, so the
\* chunk_id that follows never decides a comparison.
TaskIdText(i) == Append(Digits(i), 95)

\* a < b on Python strings.
RECURSIVE StrLess(_, _)
StrLess(a, b) ==
    IF a = <<>> THEN b # <<>>
    ELSE IF b = <<>> THEN FALSE
    ELSE IF Head(a) # Head(b) THEN Head(a) < Head(b)
    ELSE StrLess(Tail(a), Tail(b))

\* A plausible slip: the sort is left out.
SortByTaskIdOmitted(rs) == rs

\* r put into a list sorted by task_id, after the results that do not
\* compare greater.
RECURSIVE InsertByTaskId(_, _)
InsertByTaskId(sorted, r) ==
    IF sorted = <<>> THEN <<r>>
    ELSE IF StrLess(TaskIdText(r.task_id), TaskIdText(Head(sorted).task_id))
         THEN <<r>> \o sorted
         ELSE <<Head(sorted)>> \o InsertByTaskId(Tail(sorted), r)

\* successful_results.sort(key=lambda r: r.task_id), a stable sort.
RECURSIVE SortByTaskId(_)
SortByTaskId(rs) ==
    IF rs = <<>> THEN <<>>
    ELSE InsertByTaskId(SortByTaskId(SubSeq(rs, 1, Len(rs) - 1)), rs[Len(rs)])

RECURSIVE SumTokens(_)
SumTokens(rs) ==
    IF rs = <<>> THEN 0 ELSE Head(rs).tokens_used + SumTokens(Tail(rs))

\* A plausible slip: the filter keeps every result.
SuccessfulResultsUnfiltered(results) == results

\* [r for r in results if r.success and r.ui_content]
SuccessfulResults(results) ==
    SelectSeq(results, LAMBDA r : r.success /\ r.ui_content # <<>>)

MergeFailedText == <<"No", "successful", "chunks", "to", "merge">>

\* _merge_results_intelligent: it raises, or returns the document, which is
\* the header with its counts and the artifacts in sorted order.
MergeResultsIntelligent(results) ==
    LET successful_results == SuccessfulResults(results) IN
    IF successful_results = <<>>
    THEN [raised |-> TRUE, error |-> MergeFailedText, parts |-> <<>>,
          successful |-> 0, failed |-> 0, tokens |-> 0]
    ELSE LET sorted == SortByTaskId(successful_results) IN
         [raised |-> FALSE, error |-> <<>>,
          parts |-> [k \in 1..Len(sorted) |-> sorted[k].ui_content],
          successful |-> Len(sorted),
          failed |-> Len(results) - Len(sorted),
          tokens |-> SumTokens(sorted)]

----------------------------------------------------------------------------
(* generate_ui_parallel, with its caller create_ui_with_advanced_processing *)
(* (ui_generation.py).  The chunker, the scheduler and                      *)
(* create_ui_with_langchain are taken by their outcomes.                    *)

\* Lengths of the chunk list the chunker may return.
ChunkCounts == {0, 2, MaxChunks}

\* The positions in the chunk list whose tasks have results in the model.
ResultPositions == {0, 1, 2, MaxChunks - 1}

\* The artifact generated for the chunk at position i.
Artifact(i) == <<i>>

\* The results a task for the chunk at position i can end with: a success
\* with its artifact, a success whose artifact is empty, a failure.
ResultsOf(i) ==
    { [task_id |-> i, success |-> TRUE, ui_content |-> Artifact(i),
       tokens_used |-> 1000 * (i + 1)],
      [task_id |-> i, success |-> TRUE, ui_content |-> <<>>,
       tokens_used |-> 1000 * (i + 1)],
      [task_id |-> i, success |-> FALSE, ui_content |-> <<>>,
       tokens_used |-> 0] }

\* The lists _execute_tasks_parallel may return for n chunks: results of
\* distinct tasks in any order of completion, with or without the tasks
\* that a deadline cut off.
ResultLists(n) ==
    LET positions == ResultPositions \cap (0..(n - 1))
        candidates == UNION { ResultsOf(i) : i \in positions }
    IN  UNION { { rs \in [1..k -> candidates] :
                    \A a, b \in 1..k : a # b => rs[a].task_id # rs[b].task_id }
                : k \in 0..Min(MaxResults, Cardinality(positions)) }

\* A chunk list, by the chunker that built it and its length.
NoChunkList == [chunker |-> "none", count |-> 0]

\* The list that generate_ui_parallel built for its tasks.
IntelligentChunks(g) ==
    [chunker |-> "AdvancedAPIChunker.create_intelligent_chunks",
     count |-> g.chunks]

\* Lengths of the list APIChunker.chunk_by_tags may return.
TagChunkCounts == {0, 2}

\* The list that create_ui_with_langchain builds from api_summary and
\* works through, one chunk after the other.
TagChunks(n) == [chunker |-> "APIChunker.chunk_by_tags", count |-> n]

NoDocument ==
    [raised |-> FALSE, error |-> <<>>, parts |-> <<>>,
     successful |-> 0, failed |-> 0, tokens |-> 0]

\* A request before generate_ui_parallel is called.  outcome is what the
\* request has ended with:
\*   final_ui          the merged document
\*   fallback_ui       what create_ui_with_langchain returned in
\*                     _fallback_sequential_generation
\*   minimal_ui        the error page of _fallback_sequential_generation
\*   caller_fallback   what create_ui_with_langchain returned in the caller
\*   raised            an exception left create_ui_with_advanced_processing
NewRequest(degrade) ==
    [pc |-> "start", enable_graceful_degradation |-> degrade,
     chunks |-> 0, results |-> <<>>, document |-> NoDocument,
     error |-> <<>>, error_from |-> "none",
     fallback_runs |-> 0, fallback_chunks |-> NoChunkList,
     caller_fallback_runs |-> 0, outcome |-> "none"]

InitGenerate == \E degrade \in BOOLEAN : gen = NewRequest(degrade)

\* `except Exception as e' of generate_ui_parallel: the fallback is called,
\* or the error is raised again.
Except(g, from, msg) ==
    IF g.enable_graceful_degradation
    THEN [g EXCEPT !.error = msg, !.error_from = from,
                   !.pc = "fallback", !.fallback_runs = @ + 1]
    ELSE [g EXCEPT !.error = msg, !.error_from = from, !.pc = "raised"]

\* chunker.create_intelligent_chunks returns n chunks.
CreateChunks(n) ==
    /\ gen.pc = "start"
    /\ gen' = [gen EXCEPT !.pc = "chunked", !.chunks = n]
    /\ UNCHANGED <<limiterVars, schedulerVars, chunker, scoring>>

\* chunker.create_intelligent_chunks raises.
CreateChunksRaises(msg) ==
    /\ gen.pc = "start"
    /\ gen' = Except(gen, "chunking", msg)
    /\ UNCHANGED <<limiterVars, schedulerVars, chunker, scoring>>

\* _create_processing_tasks and _execute_tasks_parallel return results.
ExecuteTasks ==
    /\ gen.pc = "chunked"
    /\ \E results \in ResultLists(gen.chunks) :
         gen' = [gen EXCEPT !.pc = "executed", !.results = results]
    /\ UNCHANGED <<limiterVars, schedulerVars, chunker, scoring>>

\* _create_processing_tasks or _execute_tasks_parallel raises.
ExecuteTasksRaises(msg) ==
    /\ gen.pc = "chunked"
    /\ gen' = Except(gen, "scheduling", msg)
    /\ UNCHANGED <<limiterVars, schedulerVars, chunker, scoring>>

\* _merge_results_intelligent, then the return of final_ui.
MergeResults ==
    /\ gen.pc = "executed"
    /\ LET merged == MergeResultsIntelligent(gen.results) IN
       gen' = IF merged.raised
              THEN Except(gen, "merging", merged.error)
              ELSE [gen EXCEPT !.pc = "returned", !.document = merged,
                               !.outcome = "final_ui"]
    /\ UNCHANGED <<limiterVars, schedulerVars, chunker, scoring>>

\* _fallback_sequential_generation: create_ui_with_langchain(api_summary,
\* ...) chunks api_summary into n chunks and returns, or raises and the
\* error page is returned.
FallbackSequential(n, raises) ==
    /\ gen.pc = "fallback"
    /\ gen' = [gen EXCEPT !.pc = "returned",
                          !.fallback_chunks = TagChunks(n),
                          !.outcome = IF raises THEN "minimal_ui"
                                      ELSE "fallback_ui"]
    /\ UNCHANGED <<limiterVars, schedulerVars, chunker, scoring>>

\* create_ui_with_advanced_processing returns what generate_ui_parallel
\* returned.
CallerReturns ==
    /\ gen.pc = "returned"
    /\ gen' = [gen EXCEPT !.pc = "caller_done"]
    /\ UNCHANGED <<limiterVars, schedulerVars, chunker, scoring>>

\* `except Exception as e' of create_ui_with_advanced_processing:
\* create_ui_with_langchain is called and returns, or raises.
CallerFallback(raises) ==
    /\ gen.pc = "raised"
    /\ gen' = [gen EXCEPT !.pc = "caller_done",
                          !.caller_fallback_runs = @ + 1,
                          !.outcome = IF raises THEN "raised"
                                      ELSE "caller_fallback"]
    /\ UNCHANGED <<limiterVars, schedulerVars, chunker, scoring>>

NextGenerate ==
    \/ \E n \in ChunkCounts : CreateChunks(n)
    \/ \E msg \in RaisedTexts : CreateChunksRaises(msg)
    \/ ExecuteTasks
    \/ \E msg \in RaisedTexts : ExecuteTasksRaises(msg)
    \/ MergeResults
    \/ \E n \in TagChunkCounts, raises \in BOOLEAN : FallbackSequential(n, raises)
    \/ CallerReturns
    \/ \E raises \in BOOLEAN : CallerFallback(raises)

----------------------------------------------------------------------------
(* AdvancedAPIChunker (advanced_chunking.py) *)

\* Scores (complexity_score) are held in tenths: 30 is 3.0.

\* The longest list api_summary['endpoints'] the model draws.
MaxOperations == 5

\* The constructor's arguments (target_tokens_per_chunk, max_tokens_per_chunk,
\* min_endpoints_per_chunk, max_endpoints_per_chunk).
Settings(target, max_tokens, min_endpoints, max_endpoints) ==
    [target_tokens_per_chunk |-> target,
     max_tokens_per_chunk    |-> max_tokens,
     min_endpoints_per_chunk |-> min_endpoints,
     max_endpoints_per_chunk |-> max_endpoints]

ChunkerSettings ==
    { Settings(10, 10, 2, 5), Settings(10, 10, 1, 3), Settings(6, 10, 2, 2),
      Settings(4, 10, 2, 3) }

\* What analyze_endpoints finds out about an endpoint, but for its priority:
\* the method and the tags of the endpoint, count_tokens of its JSON text
\* and calculate_endpoint_complexity of it.
Endpoint(method, tags, token_count, complexity_score) ==
    [method |-> method, tags |-> tags, token_count |-> token_count,
     complexity_score |-> complexity_score]

EndpointKinds ==
    { Endpoint("GET", <<"users">>, 2, 20),
      Endpoint("PUT", <<"users", "admin">>, 6, 40),
      Endpoint("DELETE", <<"admin">>, 4, 25),
      Endpoint("DELETE", <<>>, 11, 70) }

\* AdvancedAPIChunker._assign_priority.
AssignPriority(method, complexity) ==
    IF method \in {"GET", "POST"} \/ complexity < 30 THEN 1
    ELSE IF method \in {"PUT", "PATCH"} \/ complexity < 60 THEN 2
    ELSE 3

\* AdvancedAPIChunker.analyze_endpoints: one EndpointComplexity for each
\* endpoint, in the order of the list.  `id' is the place of the endpoint in
\* the list: it tells one endpoint_data from another that is equal to it.
AnalyzedEndpoints(endpoints) ==
    [i \in 1..Len(endpoints) |->
        [id               |-> i,
         tags             |-> endpoints[i].tags,
         token_count      |-> endpoints[i].token_count,
         complexity_score |-> endpoints[i].complexity_score,
         priority         |-> AssignPriority(endpoints[i].method,
                                             endpoints[i].complexity_score)]]

\* The grouping key of _group_by_semantics.
PrimaryTag(ep) == IF ep.tags # <<>> THEN ep.tags[1] ELSE "default"

\* groups[primary_tag].append(endpoint): a dict keeps its keys in the order
\* of their first insertion.
AddToGroup(groups, ep) ==
    IF \E i \in 1..Len(groups) : groups[i].name = PrimaryTag(ep)
    THEN [i \in 1..Len(groups) |->
             IF groups[i].name = PrimaryTag(ep)
             THEN [groups[i] EXCEPT !.endpoints = Append(@, ep)]
             ELSE groups[i]]
    ELSE Append(groups, [name |-> PrimaryTag(ep), endpoints |-> <<ep>>])

RECURSIVE GroupFrom(_, _, _)
GroupFrom(endpoints, i, groups) ==
    IF i > Len(endpoints) THEN groups
    ELSE GroupFrom(endpoints, i + 1, AddToGroup(groups, endpoints[i]))

\* A plausible slip: an endpoint without tags belongs to no group.
GroupBySemanticsTaggedOnly(endpoints) ==
    GroupFrom(SelectSeq(endpoints, LAMBDA ep : ep.tags # <<>>), 1, <<>>)

\* AdvancedAPIChunker._group_by_semantics.
GroupBySemantics(endpoints) == GroupFrom(endpoints, 1, <<>>)

RECURSIVE SumTokenCount(_)
SumTokenCount(endpoints) ==
    IF endpoints = <<>> THEN 0
    ELSE Head(endpoints).token_count + SumTokenCount(Tail(endpoints))

RECURSIVE MinPriority(_)
MinPriority(endpoints) ==
    IF Len(endpoints) = 1 THEN Head(endpoints).priority
    ELSE Min(Head(endpoints).priority, MinPriority(Tail(endpoints)))

\* AdvancedAPIChunker._build_chunk.  chunk_id is f"{group_name}_{counter}",
\* held as <<group_name, counter>>; complexity_distribution and
\* semantic_coherence are left out: nothing reads them but the log.
BuildChunk(chunk_id, endpoints, estimated_tokens) ==
    [chunk_id            |-> chunk_id,
     endpoints           |-> endpoints,
     estimated_tokens    |-> estimated_tokens,
     processing_priority |-> MinPriority(endpoints)]

\* The sort key (ep.priority, -ep.complexity_score) of
\* _create_balanced_chunks.
EndpointKey(ep) == <<ep.priority, -ep.complexity_score>>

\* The order of Python on tuples of two numbers.
KeyBefore(a, b) == a[1] < b[1] \/ (a[1] = b[1] /\ a[2] < b[2])

\* sorted(items, key=...), by the keys of the items: the places of the
\* items in the order of their keys.  sorted() is stable: an item goes
\* behind the items that are not behind it in the order.
RECURSIVE OrderFrom(_, _, _)
OrderFrom(keys, i, order) ==
    IF i > Len(keys) THEN order
    ELSE LET k == Cardinality({j \in 1..Len(order) :
                                  ~KeyBefore(keys[i], keys[order[j]])})
         IN  OrderFrom(keys, i + 1,
                       SubSeq(order, 1, k) \o <<i>>
                           \o SubSeq(order, k + 1, Len(order)))

Sorted(items, keys) ==
    LET order == OrderFrom(keys, 1, <<>>)
    IN  [j \in 1..Len(items) |-> items[order[j]]]

\* A plausible slip: `>' for `>=' in the test of the number of endpoints.
ShouldCreateNewChunkLate(projected_tokens, count, self) ==
    \/ projected_tokens > self.max_tokens_per_chunk
    \/ /\ projected_tokens > self.target_tokens_per_chunk
       /\ count >= self.min_endpoints_per_chunk
    \/ count > self.max_endpoints_per_chunk

\* should_create_new_chunk of _create_balanced_chunks.
ShouldCreateNewChunk(projected_tokens, count, self) ==
    \/ projected_tokens > self.max_tokens_per_chunk
    \/ /\ projected_tokens > self.target_tokens_per_chunk
       /\ count >= self.min_endpoints_per_chunk
    \/ count >= self.max_endpoints_per_chunk

\* The loop of _create_balanced_chunks from the i-th sorted endpoint on, and
\* the final chunk.
RECURSIVE PackFrom(_, _, _, _, _, _, _, _)
PackFrom(sorted_endpoints, i, chunks, current_chunk_endpoints, current_tokens, chunk_counter, group_name, self) ==
    IF i > Len(sorted_endpoints)
    THEN IF current_chunk_endpoints # <<>>
         THEN Append(chunks, BuildChunk(<<group_name, chunk_counter>>,
                                        current_chunk_endpoints,
                                        current_tokens))
         ELSE chunks
    ELSE LET endpoint == sorted_endpoints[i]
             projected_tokens == current_tokens + endpoint.token_count
         IN  IF /\ ShouldCreateNewChunk(projected_tokens,
                                        Len(current_chunk_endpoints), self)
                /\ current_chunk_endpoints # <<>>
             THEN PackFrom(sorted_endpoints, i + 1,
                           Append(chunks,
                                  BuildChunk(<<group_name, chunk_counter>>,
                                             current_chunk_endpoints,
                                             current_tokens)),
                           <<endpoint>>, endpoint.token_count,
                           chunk_counter + 1, group_name, self)
             ELSE PackFrom(sorted_endpoints, i + 1, chunks,
                           Append(current_chunk_endpoints, endpoint),
                           projected_tokens, chunk_counter, group_name, self)

\* A plausible slip: the endpoints are packed in the order they came in.
CreateBalancedChunksUnsorted(endpoints, group_name, self) ==
    IF endpoints = <<>> THEN <<>>
    ELSE PackFrom(endpoints, 1, <<>>, <<>>, 0, 0, group_name, self)

\* AdvancedAPIChunker._create_balanced_chunks.
CreateBalancedChunks(endpoints, group_name, self) ==
    IF endpoints = <<>> THEN <<>>
    ELSE PackFrom(Sorted(endpoints, [i \in 1..Len(endpoints) |->
                                        EndpointKey(endpoints[i])]),
                  1, <<>>, <<>>, 0, 0, group_name, self)

\* A plausible slip: each half takes half of the estimate of the chunk.
SplitLargeChunkHalvesEstimate(large_chunk) ==
    LET endpoints == large_chunk.endpoints
        mid_point == Len(endpoints) \div 2
    IN  << BuildChunk(Append(large_chunk.chunk_id, "part1"),
                      SubSeq(endpoints, 1, mid_point),
                      large_chunk.estimated_tokens \div 2),
           BuildChunk(Append(large_chunk.chunk_id, "part2"),
                      SubSeq(endpoints, mid_point + 1, Len(endpoints)),
                      large_chunk.estimated_tokens \div 2) >>

\* AdvancedAPIChunker._split_large_chunk.
SplitLargeChunk(large_chunk) ==
    LET endpoints == large_chunk.endpoints
        mid_point == Len(endpoints) \div 2
        chunk1_endpoints == SubSeq(endpoints, 1, mid_point)
        chunk2_endpoints == SubSeq(endpoints, mid_point + 1, Len(endpoints))
    IN  << BuildChunk(Append(large_chunk.chunk_id, "part1"),
                      chunk1_endpoints, SumTokenCount(chunk1_endpoints)),
           BuildChunk(Append(large_chunk.chunk_id, "part2"),
                      chunk2_endpoints, SumTokenCount(chunk2_endpoints)) >>

\* The sort key (c.processing_priority, -c.estimated_tokens) of
\* _optimize_chunk_distribution.
ChunkKey(c) == <<c.processing_priority, -c.estimated_tokens>>

\* The test of _optimize_chunk_distribution:
\* estimated_tokens > max_tokens_per_chunk * 0.9 and
\* endpoint_count > min_endpoints_per_chunk * 2.
IsLargeChunk(chunk, self) ==
    /\ chunk.estimated_tokens * 10 > self.max_tokens_per_chunk * 9
    /\ Len(chunk.endpoints) > self.min_endpoints_per_chunk * 2

RECURSIVE SplitFrom(_, _, _, _)
SplitFrom(sorted_chunks, i, optimized_chunks, self) ==
    IF i > Len(sorted_chunks) THEN optimized_chunks
    ELSE SplitFrom(sorted_chunks, i + 1,
                   IF IsLargeChunk(sorted_chunks[i], self)
                   THEN optimized_chunks \o SplitLargeChunk(sorted_chunks[i])
                   ELSE Append(optimized_chunks, sorted_chunks[i]),
                   self)

\* AdvancedAPIChunker._optimize_chunk_distribution.
OptimizeChunkDistribution(chunks, self) ==
    IF Len(chunks) <= 1 THEN chunks
    ELSE SplitFrom(Sorted(chunks, [i \in 1..Len(chunks) |->
                                      ChunkKey(chunks[i])]),
                   1, <<>>, self)

\* No call of create_intelligent_chunks is under way.
NoChunker ==
    [pc |-> "none", self |-> Settings(0, 0, 0, 0), endpoints |-> <<>>,
     use_semantic_grouping |-> TRUE, analyzed_endpoints |-> <<>>,
     semantic_groups |-> <<>>, chunks |-> <<>>, optimized_chunks |-> <<>>]

\* create_intelligent_chunks(api_summary, use_semantic_grouping) has been
\* called on a chunker constructed with the settings `self'.
NewChunking(self, endpoints, use_semantic_grouping) ==
    [NoChunker EXCEPT !.pc = "called", !.self = self,
                      !.endpoints = endpoints,
                      !.use_semantic_grouping = use_semantic_grouping]

\* The lists of at most n endpoints.
EndpointLists(n) == UNION { [1..k -> EndpointKinds] : k \in 0..n }

\* Ten endpoints, seven of them small ones tagged "users" and three of them
\* large ones tagged "admin", for a chunker with target_tokens_per_chunk=500
\* and max_endpoints_per_chunk=4 (the other two settings at their defaults).
ScenarioEndpoints ==
    [i \in 1..10 |-> IF i \in {2, 5, 9}
                     THEN Endpoint("POST", <<"admin">>, 150, 80)
                     ELSE Endpoint("GET", <<"users">>, 50, 20)]

ScenarioSettings == Settings(500, 15000, 2, 4)

InitChunker ==
    \/ \E self \in ChunkerSettings, endpoints \in EndpointLists(MaxOperations),
          use_semantic_grouping \in BOOLEAN :
         chunker = NewChunking(self, endpoints, use_semantic_grouping)
    \/ chunker = NewChunking(ScenarioSettings, ScenarioEndpoints, TRUE)

\* create_intelligent_chunks up to its second print, which divides by
\* len(analyzed_endpoints): ZeroDivisionError when there is no endpoint.
AnalyzeEndpoints ==
    /\ chunker.pc = "called"
    /\ chunker' =
         IF chunker.endpoints = <<>>
         THEN [chunker EXCEPT !.pc = "raised"]
         ELSE [chunker EXCEPT
                  !.pc = "analyzed",
                  !.analyzed_endpoints = AnalyzedEndpoints(chunker.endpoints)]
    /\ UNCHANGED <<limiterVars, schedulerVars, gen, scoring>>

\* semantic_groups = self._group_by_semantics(analyzed_endpoints).
GroupEndpoints ==
    /\ chunker.pc = "analyzed"
    /\ chunker.use_semantic_grouping
    /\ chunker' =
         [chunker EXCEPT
             !.pc = "grouped",
             !.semantic_groups = GroupBySemantics(chunker.analyzed_endpoints)]
    /\ UNCHANGED <<limiterVars, schedulerVars, gen, scoring>>

\* One turn of the loop over semantic_groups.items(): the chunks of the
\* first group that has none yet.
ChunkNextGroup ==
    /\ chunker.pc = "grouped"
    /\ chunker.semantic_groups # <<>>
    /\ LET group == Head(chunker.semantic_groups)
       IN  chunker' =
             [chunker EXCEPT
                 !.semantic_groups = Tail(@),
                 !.chunks = @ \o CreateBalancedChunks(group.endpoints,
                                                      group.name,
                                                      chunker.self)]
    /\ UNCHANGED <<limiterVars, schedulerVars, gen, scoring>>

\* chunks = self._create_balanced_chunks(analyzed_endpoints, "mixed").
ChunkMixed ==
    /\ chunker.pc = "analyzed"
    /\ ~chunker.use_semantic_grouping
    /\ chunker' =
         [chunker EXCEPT
             !.pc = "grouped",
             !.chunks = CreateBalancedChunks(chunker.analyzed_endpoints,
                                             "mixed", chunker.self)]
    /\ UNCHANGED <<limiterVars, schedulerVars, gen, scoring>>

\* optimized_chunks = self._optimize_chunk_distribution(chunks), returned.
OptimizeChunks ==
    /\ chunker.pc = "grouped"
    /\ chunker.semantic_groups = <<>>
    /\ chunker' =
         [chunker EXCEPT
             !.pc = "returned",
             !.optimized_chunks = OptimizeChunkDistribution(chunker.chunks,
                                                            chunker.self)]
    /\ UNCHANGED <<limiterVars, schedulerVars, gen, scoring>>

NextChunker ==
    \/ AnalyzeEndpoints
    \/ GroupEndpoints
    \/ ChunkNextGroup
    \/ ChunkMixed
    \/ OptimizeChunks

----------------------------------------------------------------------------
(* AdvancedAPIChunker._analyze_schema_complexity (advanced_chunking.py) *)

\* The schema is a dict whose values may be dicts; dicts are objects, and a
\* dict may be a value of several dicts or, directly or through others, of
\* itself.  The dicts of a schema are numbered 1..MaxSchemas, the schema
\* passed to the call being dict 1; 0 is the fresh empty dict of
\* schema.get('items', {}) when a dict has no 'items'.
MaxSchemas == 3

SchemaIds == 1..MaxSchemas

\* The depth of recursion at which Python raises RecursionError
\* (sys.getrecursionlimit(), held small).
RecursionLimit == 6

\* Complexities are held in 1/ComplexityUnit, which keeps the products by
\* 0.7 and by 0.6 whole for the nestings of the schemas of the model.
ComplexityUnit == 10 * 1000

\* A dict of a schema: its 'type', the dicts that are the values of its
\* 'properties' in their order, the dict that is its 'items' (0: none),
\* whether it has 'enum' and whether it has '$ref'.
SchemaDict(type, properties, items, enum, ref) ==
    [type |-> type, properties |-> properties, items |-> items,
     enum |-> enum, ref |-> ref]

EmptyDict == SchemaDict("none", <<>>, 0, FALSE, FALSE)

SchemaDicts ==
    { SchemaDict("object", <<p>>, 0, FALSE, FALSE) : p \in SchemaIds }
        \cup { SchemaDict("array", <<>>, i, FALSE, FALSE) :
                  i \in 0..MaxSchemas }
        \cup { SchemaDict("string", <<>>, 0, TRUE, FALSE),
               SchemaDict("object", <<2, 2>>, 0, FALSE, TRUE) }

\* The dict with the number.
DictOf(heap, id) == IF id = 0 THEN EmptyDict ELSE heap[id]

\* The frame of one call of _analyze_schema_complexity(schema):
\*   start   at its first line;
\*   items   in the call for schema['items'];
\*   props   in the loop over properties.items(), before the i-th property;
\*   prop    in the call for the i-th property.
NewFrame(id) == [schema |-> id, at |-> "start", i |-> 0, complexity |-> 0]

NoScoring ==
    [pc |-> "none", heap |-> <<>>, stack |-> <<>>, result |-> 0,
     entered |-> <<>>]

\* self._analyze_schema_complexity(schema) is called on dict 1 of the heap.
InitScoring ==
    \E heap \in [SchemaIds -> SchemaDicts] :
        scoring = [pc |-> "running", heap |-> heap, stack |-> <<NewFrame(1)>>,
                   result |-> 0, entered |-> [id \in SchemaIds |->
                                                 IF id = 1 THEN 1 ELSE 0]]

Top == scoring.stack[Len(scoring.stack)]

\* The stack with its top frame replaced.
WithTop(frame) == [scoring.stack EXCEPT ![Len(scoring.stack)] = frame]

\* The recursive call self._analyze_schema_complexity(d) made from the
\* frame: a new frame, or RecursionError when the stack is full.
CallSchema(frame, id) ==
    IF Len(scoring.stack) >= RecursionLimit
    THEN [scoring EXCEPT !.pc = "raised", !.stack = <<>>]
    ELSE [scoring EXCEPT
             !.stack = Append(WithTop(frame), NewFrame(id)),
             !.entered = IF id = 0 THEN @
                         ELSE [@ EXCEPT ![id] = @ + 1]]

\* The first lines of the function: complexity = len(properties) * 0.3;
\* for an array, += 1.8 and the call for schema.get('items', {}).
EnterSchema ==
    /\ scoring.pc = "running"
    /\ Top.at = "start"
    /\ LET schema == DictOf(scoring.heap, Top.schema)
           complexity == Len(schema.properties) * 3 * (ComplexityUnit \div 10)
       IN  scoring' =
             IF schema.type = "array"
             THEN CallSchema([Top EXCEPT !.at = "items",
                                         !.complexity = complexity
                                             + 18 * (ComplexityUnit \div 10)],
                             schema.items)
             ELSE [scoring EXCEPT
                      !.stack = WithTop([Top EXCEPT !.at = "props", !.i = 1,
                                                    !.complexity = complexity])]
    /\ UNCHANGED <<limiterVars, schedulerVars, gen, chunker>>

\* One turn of the loop over properties.items(): for a property of type
\* 'object', += 2.5 and the call for it; for another one with 'enum',
\* += 1.1.
VisitProperty ==
    /\ scoring.pc = "running"
    /\ Top.at = "props"
    /\ Top.i <= Len(DictOf(scoring.heap, Top.schema).properties)
    /\ LET id == DictOf(scoring.heap, Top.schema).properties[Top.i]
           prop_schema == DictOf(scoring.heap, id)
       IN  scoring' =
             IF prop_schema.type = "object"
             THEN CallSchema([Top EXCEPT !.at = "prop",
                                         !.complexity =
                                             @ + 25 * (ComplexityUnit \div 10)],
                             id)
             ELSE [scoring EXCEPT
                      !.stack = WithTop(
                          [Top EXCEPT !.i = @ + 1,
                                      !.complexity =
                                          IF prop_schema.enum
                                          THEN @ + 11 * (ComplexityUnit \div 10)
                                          ELSE @])]
    /\ UNCHANGED <<limiterVars, schedulerVars, gen, chunker>>

\* The end of the function: += 1.5 for '$ref', and `return complexity' to
\* the caller, which adds 0.7 of it (items) or 0.6 of it (a property).
ReturnComplexity ==
    /\ scoring.pc = "running"
    /\ Top.at = "props"
    /\ Top.i > Len(DictOf(scoring.heap, Top.schema).properties)
    /\ LET complexity ==
               Top.complexity
                   + IF DictOf(scoring.heap, Top.schema).ref
                     THEN 15 * (ComplexityUnit \div 10) ELSE 0
           depth == Len(scoring.stack)
       IN  scoring' =
             IF depth = 1
             THEN [scoring EXCEPT !.pc = "returned", !.stack = <<>>,
                                  !.result = complexity]
             ELSE LET caller == scoring.stack[depth - 1]
                  IN  [scoring EXCEPT
                          !.stack =
                              Append(SubSeq(scoring.stack, 1, depth - 2),
                                     IF caller.at = "items"
                                     THEN [caller EXCEPT
                                              !.at = "props", !.i = 1,
                                              !.complexity =
                                                  @ + (complexity * 7) \div 10]
                                     ELSE [caller EXCEPT
                                              !.at = "props", !.i = @ + 1,
                                              !.complexity =
                                                  @ + (complexity * 6) \div 10])]
    /\ UNCHANGED <<limiterVars, schedulerVars, gen, chunker>>

NextScoring ==
    \/ EnterSchema
    \/ VisitProperty
    \/ ReturnComplexity

----------------------------------------------------------------------------
(* The specifications *)

\* The limiter on its own: a generator has been constructed around it and
\* runs no batch.
InitSpecLimiter ==
    /\ InitLimiter
    /\ max_workers = default_max_workers
    /\ InitBatch
    /\ gen = NewRequest(TRUE)
    /\ chunker = NoChunker
    /\ scoring = NoScoring

SpecLimiter == InitSpecLimiter /\ [][NextLimiter]_vars

\* One batch run by _execute_tasks_parallel, the limiter being a fresh one
\* that the model leaves untouched.
InitSpecScheduler ==
    /\ InitLimiter
    /\ adaptive_backoff = TRUE
    /\ InitScheduler
    /\ gen = NewRequest(TRUE)
    /\ chunker = NoChunker
    /\ scoring = NoScoring

SpecScheduler == InitSpecScheduler /\ [][NextScheduler]_vars

\* The batch when every call a task awaits returns: the event loop runs
\* every coroutine that is ready, so a task that can take a step takes one,
\* and _execute_tasks_parallel takes the results that as_completed holds.
\* The deadline does not elapse.
TaskStep(t) ==
    \/ ObtainPermit(t)
    \/ AcquireReturnsTrue(t)
    \/ AcquireReturnsFalse(t)
    \/ \E msg \in RaisedTexts : AcquireRaises(t, msg)
    \/ \E msg \in RaisedTexts : OptimizeRaises(t, msg)
    \/ \E outcome \in ServiceOutcomes : GenerationReturns(t, outcome)
    \/ GenerationRaises(t)
    \/ RetryWake(t)

NextInTime ==
    \/ \E t \in TaskIds : TaskStep(t)
    \/ Collect

SpecSchedulerFair ==
    /\ InitSpecScheduler
    /\ [][NextInTime]_vars
    /\ \A t \in TaskIds : WF_vars(TaskStep(t))
    /\ WF_vars(Collect)

\* One request served by create_ui_with_advanced_processing; the limiter
\* and the batch are fresh ones that the model leaves untouched.
InitSpecGenerate ==
    /\ InitLimiter
    /\ adaptive_backoff = TRUE
    /\ max_workers = default_max_workers
    /\ InitBatch
    /\ InitGenerate
    /\ chunker = NoChunker
    /\ scoring = NoScoring

SpecGenerate == InitSpecGenerate /\ [][NextGenerate]_vars

\* The limiter AzureOpenAIRateLimiter(tpm_limit=600, tpm_safety_margin=0.5)
\* with the deployed request limit, and calls for 100 and 400 tokens.
ScenarioTpmLimits == {600}
ScenarioMargins == {50}
ScenarioRpmLimits == {720}
ScenarioRequests == {100, 400}

InitSpecScenario ==
    /\ now = 0
    /\ \E tpm \in ScenarioTpmLimits, margin \in ScenarioMargins,
          rpm \in ScenarioRpmLimits :
         LET safe_tpm == SafeLimit(tpm, margin)
             safe_rpm == SafeLimit(rpm, rpm_safety_margin)
         IN  /\ token_bucket = NewBucket(safe_tpm, safe_tpm, safe_tpm, 0)
             /\ request_bucket = NewBucket(safe_rpm, safe_rpm, safe_rpm, 0)
    /\ adaptive_backoff \in BOOLEAN
    /\ current_backoff = base_backoff
    /\ metrics = NewMetrics
    /\ recent_requests = 0
    /\ call = [p \in CallerIds |-> IdleCall]
    /\ last_attempt = NoAttempt
    /\ ops = 0
    /\ max_workers = default_max_workers
    /\ InitBatch
    /\ gen = NewRequest(TRUE)
    /\ chunker = NoChunker
    /\ scoring = NoScoring

NextScenario ==
    \/ \E p \in CallerIds, n \in ScenarioRequests, timeout \in Timeouts :
         AcquireTokens(p, n, timeout)
    \/ \E p \in CallerIds : AcquireRetry(p)
    \/ \E msg \in ErrorTexts : HandleRateLimitError(msg)
    \/ GetStatus
    \/ ResetMetrics
    \/ Advance

SpecScenario == InitSpecScenario /\ [][NextScenario]_vars

\* One TokenBucket(capacity=1000, tokens=1000, refill_rate=100.0) used on its
\* own: its methods are called at any time, for 300 or 1000 tokens.
BucketCapacities == {1000}
BucketRatesPerSecond == {100}
BucketRequests == {300, 1000}
BucketTimeSteps == {5 * Milli}

InitSpecBucket ==
    /\ now = 0
    /\ \E capacity \in BucketCapacities, rate \in BucketRatesPerSecond :
         token_bucket =
             NewBucket(capacity, capacity, rate * SecondsPerMinute, 0)
    /\ \E rpm \in RpmLimits :
         LET safe_rpm == SafeLimit(rpm, rpm_safety_margin)
         IN  request_bucket = NewBucket(safe_rpm, safe_rpm, safe_rpm, 0)
    /\ adaptive_backoff = TRUE
    /\ current_backoff = base_backoff
    /\ metrics = NewMetrics
    /\ recent_requests = 0
    /\ call = [p \in CallerIds |-> IdleCall]
    /\ last_attempt = NoAttempt
    /\ ops = 0
    /\ max_workers = default_max_workers
    /\ InitBatch
    /\ gen = NewRequest(TRUE)
    /\ chunker = NoChunker
    /\ scoring = NoScoring

\* What a method of the bucket leaves alone.
BucketFrame ==
    /\ UNCHANGED <<now, request_bucket, adaptive_backoff, current_backoff,
                   metrics, recent_requests, call, last_attempt>>
    /\ UNCHANGED schedulerVars
    /\ UNCHANGED <<gen, chunker, scoring>>

\* token_bucket._refill()
BucketRefill ==
    /\ ops < MaxOps
    /\ ops' = ops + 1
    /\ token_bucket' = Refill(token_bucket, now)
    /\ BucketFrame

\* token_bucket.consume(n)
BucketConsume(n) ==
    /\ ops < MaxOps
    /\ ops' = ops + 1
    /\ token_bucket' = Consume(token_bucket, n, now).bucket
    /\ BucketFrame

\* token_bucket.wait_time(n)
BucketWaitTime(n) ==
    /\ ops < MaxOps
    /\ ops' = ops + 1
    /\ token_bucket' = WaitTime(token_bucket, n, now).bucket
    /\ BucketFrame

\* token_bucket.utilization
BucketUtilization ==
    /\ ops < MaxOps
    /\ ops' = ops + 1
    /\ token_bucket' = Utilization(token_bucket, now).bucket
    /\ BucketFrame

\* Time passes.
Tick ==
    /\ \E d \in BucketTimeSteps :
         /\ now + d <= MaxNow
         /\ now' = now + d
    /\ UNCHANGED <<token_bucket, request_bucket, adaptive_backoff,
                   current_backoff, metrics, recent_requests, call,
                   last_attempt, ops>>
    /\ UNCHANGED schedulerVars
    /\ UNCHANGED <<gen, chunker, scoring>>

NextBucket ==
    \/ BucketRefill
    \/ \E n \in BucketRequests : BucketConsume(n)
    \/ \E n \in BucketRequests : BucketWaitTime(n)
    \/ BucketUtilization
    \/ Tick

SpecBucket == InitSpecBucket /\ [][NextBucket]_vars

\* The limiter after k rate-limit errors have been handled at time 0: its
\* metrics and its backoff (which k doublings take from base_backoff up to
\* max_backoff when adaptive_backoff is set).
MaxHandledErrors == 9

RECURSIVE MetricsAfterErrors(_)
MetricsAfterErrors(k) ==
    IF k = 0 THEN NewMetrics
    ELSE AddRequest(MetricsAfterErrors(k - 1), 0, 0, FALSE)

RECURSIVE BackoffAfterErrors(_)
BackoffAfterErrors(k) ==
    IF k = 0 THEN base_backoff
    ELSE Min(max_backoff, BackoffAfterErrors(k - 1) * backoff_multiplier)

InitSpecBackoff ==
    /\ now = 0
    /\ \E tpm \in TpmLimits, rpm \in RpmLimits :
         LET safe_tpm == SafeLimit(tpm, tpm_safety_margin)
             safe_rpm == SafeLimit(rpm, rpm_safety_margin)
         IN  /\ token_bucket = NewBucket(safe_tpm, safe_tpm, safe_tpm, 0)
             /\ request_bucket = NewBucket(safe_rpm, safe_rpm, safe_rpm, 0)
    /\ adaptive_backoff \in BOOLEAN
    /\ \E k \in 0..MaxHandledErrors :
         /\ metrics = MetricsAfterErrors(k)
         /\ current_backoff = IF adaptive_backoff THEN BackoffAfterErrors(k)
                              ELSE base_backoff
    /\ recent_requests = 0
    /\ call = [p \in CallerIds |-> IdleCall]
    /\ last_attempt = NoAttempt
    /\ ops = 0
    /\ max_workers = default_max_workers
    /\ InitBatch
    /\ gen = NewRequest(TRUE)
    /\ chunker = NoChunker
    /\ scoring = NoScoring

NextBackoff ==
    \/ \E msg \in ErrorTexts : HandleRateLimitError(msg)
    \/ GetStatus
    \/ ResetMetrics
    \/ Advance

SpecBackoff == InitSpecBackoff /\ [][NextBackoff]_vars

\* The calls of SpecLimiter on a limiter with adaptive backoff that has
\* handled MaxHandledErrors - 1 rate-limit errors before: its backoff is
\* one doubling from the ceiling.
InitSpecBackoffCalls ==
    /\ now = 0
    /\ \E tpm \in TpmLimits, rpm \in RpmLimits :
         LET safe_tpm == SafeLimit(tpm, tpm_safety_margin)
             safe_rpm == SafeLimit(rpm, rpm_safety_margin)
         IN  /\ token_bucket = NewBucket(safe_tpm, safe_tpm, safe_tpm, 0)
             /\ request_bucket = NewBucket(safe_rpm, safe_rpm, safe_rpm, 0)
    /\ adaptive_backoff = TRUE
    /\ \E k \in {MaxHandledErrors - 1} :
         /\ metrics = MetricsAfterErrors(k)
         /\ current_backoff = IF adaptive_backoff THEN BackoffAfterErrors(k)
                              ELSE base_backoff
    /\ recent_requests = 0
    /\ call = [p \in CallerIds |-> IdleCall]
    /\ last_attempt = NoAttempt
    /\ ops = 0
    /\ max_workers = default_max_workers
    /\ InitBatch
    /\ gen = NewRequest(TRUE)
    /\ chunker = NoChunker
    /\ scoring = NoScoring

SpecBackoffCalls == InitSpecBackoffCalls /\ [][NextLimiter]_vars

\* One call of create_intelligent_chunks; the limiter, the batch and the
\* request are fresh ones that the model leaves untouched.
InitSpecChunker ==
    /\ InitLimiter
    /\ adaptive_backoff = TRUE
    /\ max_workers = default_max_workers
    /\ InitBatch
    /\ gen = NewRequest(TRUE)
    /\ InitChunker
    /\ scoring = NoScoring

SpecChunker == InitSpecChunker /\ [][NextChunker]_vars

\* The limiter of SpecLimiter under acquire_tokens calls that come 50 s
\* apart or at the end of a caller's sleep: a bucket is then met partly
\* refilled.
StaggerTimeSteps == {50 * Milli}

\* The estimated_tokens of the calls: within the capacity of 3 tokens.
StaggerRequests == {0, 2}

Elapse ==
    /\ \E t \in { now + d : d \in StaggerTimeSteps }
               \cup { call[p].wake_at : p \in CallerIds } :
         /\ t > now
         /\ t <= MaxNow
         /\ now' = t
    /\ UNCHANGED <<token_bucket, request_bucket, adaptive_backoff,
                   current_backoff, metrics, recent_requests, call,
                   last_attempt, ops>>
    /\ UNCHANGED schedulerVars
    /\ UNCHANGED <<gen, chunker, scoring>>

NextStagger ==
    \/ \E p \in CallerIds, n \in StaggerRequests, timeout \in Timeouts :
         AcquireTokens(p, n, timeout)
    \/ \E p \in CallerIds : AcquireRetry(p)
    \/ Elapse

SpecStagger == InitSpecLimiter /\ [][NextStagger]_vars

\* One call of _analyze_schema_complexity; the limiter, the batch, the
\* request and the chunker are fresh ones that the model leaves untouched.
InitSpecScoring ==
    /\ InitLimiter
    /\ adaptive_backoff = TRUE
    /\ max_workers = default_max_workers
    /\ InitBatch
    /\ gen = NewRequest(TRUE)
    /\ chunker = NoChunker
    /\ InitScoring

SpecScoring == InitSpecScoring /\ [][NextScoring]_vars

----------------------------------------------------------------------------
(* Properties of the limiter (SpecLimiter) *)

\* C1: acquire_tokens is all-or-nothing over the two buckets.  In every
\* consume attempt, the immediate one and the one after the wait, either
\* the token bucket goes down by estimated_tokens and the request bucket by
\* 1, or neither bucket goes down; a token bucket with enough tokens is not
\* deducted when the request bucket holds less than 1.
C1_AcquireIsAllOrNothing ==
    last_attempt.phase # "none" =>
        \/ /\ last_attempt.token_taken = last_attempt.estimated_tokens * TokenUnit
           /\ last_attempt.request_taken = TokenUnit
        \/ /\ last_attempt.token_taken = 0
           /\ last_attempt.request_taken = 0


----------------------------------------------------------------------------
\* The step is a call of acquire_tokens by p that returns false from the
\* timeout test, without suspending (p's previous call had not ended so).
ReturnsFalseAtTimeoutTest(p) ==
    /\ call[p].pc = "idle"
    /\ call[p].result # "false"
    /\ call'[p].pc = "idle"
    /\ call'[p].result = "false"

\* C19: a call whose immediate consume fails and whose wait exceeds the
\* timeout returns false without suspending and leaves the content of both
\* buckets (what they hold at the time of the call), the metrics and
\* current_backoff as they were.
C19_TimeoutLeavesStateAlone ==
    [][\A p \in CallerIds :
         ReturnsFalseAtTimeoutTest(p) =>
           /\ Refill(token_bucket', now).tokens = Refill(token_bucket, now).tokens
           /\ Refill(request_bucket', now).tokens
                = Refill(request_bucket, now).tokens
           /\ metrics' = metrics
           /\ recent_requests' = recent_requests
           /\ current_backoff' = current_backoff]_vars

\* What a status reports of a bucket when its level and its utilization are
\* read from the same state b of the bucket.
BucketSnapshot(b) ==
    [capacity    |-> b.capacity,
     available   |-> b.tokens \div TokenUnit,
     utilization |-> (b.capacity * TokenUnit - b.tokens) \div b.capacity]

\* C24: every status that get_status returns, whatever the other callers
\* are in the middle of, is a snapshot of one state of the limiter: of the
\* state in which get_status was called, or of the state it left (the
\* buckets refilled to the time of the call).
C24_StatusIsOneSnapshot ==
    [][GetStatus =>
         /\ StatusReturned.metrics = metrics
         /\ StatusReturned.adaptive_backoff.current_backoff = current_backoff
         /\ \/ /\ StatusReturned.token_bucket = BucketSnapshot(token_bucket)
               /\ StatusReturned.request_bucket
                    = BucketSnapshot(request_bucket)
            \/ /\ StatusReturned.token_bucket = BucketSnapshot(token_bucket')
               /\ StatusReturned.request_bucket
                    = BucketSnapshot(request_bucket')]_vars

\* The cumulative counters of the metrics.
MetricsCounters ==
    {"tokens_used", "requests_made", "successful_requests",
     "rate_limit_hits", "total_wait_time"}

\* C25: no counter of the metrics decreases in any step of acquire_tokens,
\* handle_rate_limit_error or get_status, whatever the interleaving; a step
\* in which a counter decreases is a reset_metrics, and it sets every
\* counter to zero.
C25_MetricsOnlyGrow ==
    [][\/ \A f \in MetricsCounters : metrics'[f] >= metrics[f]
       \/ /\ ResetMetrics
          /\ \A f \in MetricsCounters : metrics'[f] = 0]_vars

\* Tokens have been granted at once and after a wait, and a rate-limit
\* error has been handled: every counter has grown.
C25_EveryCounterGrew ==
    \A f \in MetricsCounters : metrics[f] > 0
\* C2: for both buckets 0 <= tokens <= capacity in every reachable state,
\* whatever consume, wait_time, utilization reads, acquire_tokens calls and
\* refills have been made.
C2_BucketLevelsWithinCapacity ==
    /\ 0 <= token_bucket.tokens
    /\ token_bucket.tokens <= token_bucket.capacity * TokenUnit
    /\ 0 <= request_bucket.tokens
    /\ request_bucket.tokens <= request_bucket.capacity * TokenUnit

\* C2's case: tokens have been granted, time has passed, and a refill of
\* each bucket has been stopped at the capacity.
C2_RefilledToCapacity ==
    /\ metrics.tokens_used > 0
    /\ token_bucket.last_refill > 0
    /\ token_bucket.tokens = token_bucket.capacity * TokenUnit
    /\ request_bucket.last_refill > 0
    /\ request_bucket.tokens = request_bucket.capacity * TokenUnit

----------------------------------------------------------------------------
(* Properties of the scheduler (SpecScheduler) *)

PermitHolders == { t \in TaskIds : task[t].holding }

\* C3: at every moment at most max_workers tasks hold a permit, and a task
\* is in the generation service (_process_chunk_async) only while it holds
\* one.
C3_PermitsBoundConcurrency ==
    /\ Cardinality(PermitHolders) <= max_workers
    /\ api_semaphore = max_workers - Cardinality(PermitHolders)
    /\ \A t \in TaskIds : task[t].pc = "generate" => task[t].holding

\* C3's case: the only permit is held by a task that is in the generation
\* service while another task waits for a permit.
C3_OnePermitOneWaiting ==
    /\ max_workers = 1
    /\ \E t, u \in TaskIds :
         /\ task[t].pc = "generate"
         /\ task[u].pc = "pending"

\* The task's language model call raised a rate-limit error.
ServiceRateLimited(t) ==
    \E msg \in RaisedTexts :
        /\ IsRateLimitShaped(msg)
        /\ task[t].result.ui_content = FallbackHtml(msg)

\* C4: with max_retries = 3 and a generation service that raises a
\* rate-limit error on every call, every task ends FAILED having used 4
\* attempts, the first one and 3 retries.
C4_RateLimitedServiceEndsFailed ==
    \A t \in TaskIds :
        task[t].pc = "done" /\ ServiceRateLimited(t) =>
            /\ ~task[t].result.success
            /\ task[t].acquire_calls = max_retries + 1

\* C5: task.retry_count <= task.max_retries in every reachable state, and
\* a task makes at most max_retries + 1 attempts, whatever the limiter and
\* the generation service do.
C5_AttemptsAreBounded ==
    \A t \in TaskIds :
        /\ task[t].retry_count <= max_retries
        /\ task[t].result.retry_count <= max_retries
        /\ task[t].attempt <= max_retries
        /\ task[t].acquire_calls <= max_retries + 1

\* C5's case: a task has ended after its last allowed attempt.
C5_LastAttemptUsed ==
    \E t \in TaskIds :
        /\ task[t].pc = "done"
        /\ task[t].acquire_calls = max_retries + 1
        /\ task[t].result.retry_count = max_retries

\* C6: when an attempt fails with an error that is not rate-limit-shaped
\* (its text holds neither "429" nor "rate limit"), the task emits a FAILED
\* result at once, whatever the attempt number: no further acquire_tokens
\* call and no further generation call is made for it.
C6_NonRetryableFailsAtOnce ==
    [][step'.kind = "fail" /\ ~IsRateLimitShaped(step'.error) =>
         LET t == step'.task IN
         /\ task'[t].pc = "done"
         /\ ~task'[t].result.success
         /\ task'[t].acquire_calls = task[t].acquire_calls]_vars

\* C7: when an attempt fails with a rate-limit-shaped error,
\* handle_rate_limit_error is called exactly once for the failure; while
\* retries are left the task suspends for the delay returned before its
\* next attempt, and after the last allowed attempt it emits a FAILED
\* result that carries the error.
C7_RateLimitFailureHandledOnce ==
    [][step'.kind = "fail" /\ IsRateLimitShaped(step'.error) =>
         LET t == step'.task IN
         /\ step'.handled = 1
         /\ step'.delay \in RetryDelays
         /\ IF task[t].attempt < max_retries
            THEN /\ task'[t].pc = "retry_wait"
                 /\ task'[t].sleep_for = step'.delay
                 /\ task'[t].attempt = task[t].attempt
                 /\ task'[t].acquire_calls = task[t].acquire_calls
                 /\ task'[t].holding
            ELSE /\ task'[t].pc = "done"
                 /\ ~task'[t].result.success
                 /\ task'[t].result.error = step'.error
                 /\ task'[t].result.retry_count = max_retries]_vars

\* C7's case: a rate-limit-shaped error has just failed a task's last
\* allowed attempt.
C7_RateLimitedOnLastAttempt ==
    /\ step.kind = "fail"
    /\ IsRateLimitShaped(step.error)
    /\ step.handled = 1
    /\ task[step.task].pc = "done"
    /\ task[step.task].acquire_calls = max_retries + 1
    /\ task[step.task].result.error = step.error

\* C8: in every attempt the generation service is invoked only after
\* acquire_tokens has returned true in that same attempt; an attempt whose
\* acquire_tokens returned false makes no generation call.
C8_GenerationOnlyAfterAcquire ==
    \A t \in TaskIds : task[t].pc = "generate" => task[t].acquire_ok

\* C8's case: a task is in the generation service in a later attempt,
\* earlier attempts of it having failed.
C8_GeneratingAfterRetry ==
    \E t \in TaskIds :
        /\ task[t].pc = "generate"
        /\ task[t].attempt = 2
        /\ task[t].acquire_ok

\* C9: a task whose acquire_tokens returns false is retried, up to
\* max_retries retries.  When acquire_tokens returns false in every attempt
\* the task ends FAILED after exactly max_retries + 1 calls of it, and the
\* task ends SUCCESS when a later acquire_tokens and generation call
\* succeed.
C9_AcquireFailureIsRetried ==
    [][\A t \in TaskIds :
         /\ step'.kind = "fail" /\ step'.task = t
               /\ step'.error = AcquireFailedText =>
               IF task[t].attempt < max_retries
               THEN /\ task'[t].pc = "acquire"
                    /\ task'[t].attempt = task[t].attempt + 1
                    /\ task'[t].acquire_calls = task[t].acquire_calls + 1
               ELSE /\ task'[t].pc = "done"
                    /\ ~task'[t].result.success
         /\ task'[t].pc = "done" /\ task'[t].only_acquire_false =>
               /\ ~task'[t].result.success
               /\ task'[t].result.error = AcquireFailedText
               /\ task'[t].acquire_calls = max_retries + 1
         /\ task[t].pc = "generate" /\ task'[t].pc = "done"
               /\ step'.kind # "fail" =>
               /\ task'[t].result.success
               /\ task'[t].result.retry_count = task[t].attempt]_vars

\* C9's case: one task has ended FAILED with acquire_tokens false in every
\* attempt, and another has ended SUCCESS in a retry.
C9_FailedAndRecovered ==
    \E t, u \in TaskIds :
        /\ task[t].pc = "done"
        /\ task[t].only_acquire_false
        /\ task[t].acquire_calls = max_retries + 1
        /\ task[u].pc = "done"
        /\ task[u].result.success
        /\ task[u].result.retry_count > 0

\* C10: once the global deadline has elapsed, no task that has not yet
\* obtained a permit is granted one and no new generation call is started.
C10_NothingStartsAfterDeadline ==
    [][sched.deadline_elapsed =>
         \A t \in TaskIds :
             /\ task[t].pc = "pending" => task'[t].pc = "pending"
             /\ task'[t].pc = "generate" => task[t].pc = "generate"]_vars

\* C11: when the global deadline elapses, _execute_tasks_parallel returns
\* exactly the results collected before the deadline, each as its task
\* emitted it, at most one per task; it returns them, the timeout is not
\* raised to the caller.
C11_DeadlineReturnsCollected ==
    [][sched.deadline_elapsed =>
         /\ completed_results' = completed_results
         /\ sched'.pc \in {"cancelled", "returned"}
         /\ sched.pc = "cancelled" /\ sched'.pc = "returned" =>
              /\ sched'.returned = completed_results
              /\ Len(sched'.returned) <= NumTasks
              /\ \A i \in 1..Len(sched'.returned) :
                   /\ sched'.returned[i].task_id \in TaskIds
                   /\ sched'.returned[i] =
                        task[sched'.returned[i].task_id].result
         /\ sched.pc = "returned" => sched' = sched]_vars

\* C11's case: the function has returned after the deadline with one
\* result, a success, while a finished task's result was left uncollected.
C11_ReturnedTruncated ==
    /\ sched.deadline_elapsed
    /\ sched.pc = "returned"
    /\ Len(sched.returned) = 1
    /\ sched.returned[1].success
    /\ done_queue # <<>>

\* The task's language model call raised an error.
ServiceRaised(t) ==
    \E msg \in RaisedTexts : task[t].result.ui_content = FallbackHtml(msg)

\* C12: no error raised inside a task, by the rate limiter, the payload
\* optimisation or the generation service, escapes _execute_tasks_parallel:
\* each is recorded as the task's result with success = false, and the
\* function returns a result for every task also when some tasks failed.
C12_TaskErrorsBecomeFailures ==
    /\ \A t \in TaskIds :
         task[t].pc = "done" =>
            /\ task[t].result.task_id = t
            /\ ServiceRaised(t) => ~task[t].result.success
    /\ sched.pc = "returned" /\ ~sched.deadline_elapsed =>
         /\ Len(sched.returned) = NumTasks
         /\ \A t \in TaskIds :
              \E i \in 1..NumTasks : sched.returned[i] = task[t].result

\* The state of a task in the terms PENDING, RUNNING, RETRY_WAIT, SUCCESS
\* and FAILED.
TaskState(tk) ==
    CASE tk.pc = "pending"                -> "PENDING"
      [] tk.pc \in {"acquire", "generate"} -> "RUNNING"
      [] tk.pc = "retry_wait"             -> "RETRY_WAIT"
      [] tk.pc = "done" -> IF tk.result.success THEN "SUCCESS" ELSE "FAILED"

TaskTransitions ==
    { <<"PENDING", "RUNNING">>, <<"RUNNING", "SUCCESS">>,
      <<"RUNNING", "RETRY_WAIT">>, <<"RETRY_WAIT", "RUNNING">>,
      <<"RUNNING", "FAILED">> }

\* The number of results for task t among the results emitted so far.
EmittedResults(emitted, t) ==
    Cardinality({ i \in 1..Len(emitted) : emitted[i].task_id = t })

\* C13: a task follows only the transitions PENDING -> RUNNING ->
\* (SUCCESS | RETRY_WAIT -> RUNNING | FAILED).  SUCCESS and FAILED are
\* terminal: once its result is emitted a task makes no further
\* acquire_tokens or generation call, and at most one result is emitted per
\* task.
C13_TaskStateMachine ==
    /\ [][\A t \in TaskIds :
             /\ task[t].pc = "done" => task'[t] = task[t]
             /\ (task'[t].pc # task[t].pc
                     /\ TaskState(task'[t]) # TaskState(task[t])) =>
                  <<TaskState(task[t]), TaskState(task'[t])>>
                      \in TaskTransitions]_vars
    /\ [](\A t \in TaskIds :
             EmittedResults(done_queue \o completed_results, t) =
               IF task[t].pc = "done" THEN 1 ELSE 0)

\* C13's case: one task has ended FAILED on a rate-limit-shaped error and
\* its result has been collected, while another task is in RETRY_WAIT after
\* its third attempt.
C13_FailedAndWaiting ==
    \E t, u \in TaskIds :
        /\ TaskState(task[t]) = "FAILED"
        /\ IsRateLimitShaped(task[t].result.error)
        /\ completed_results = <<task[t].result>>
        /\ TaskState(task[u]) = "RETRY_WAIT"
        /\ task[u].attempt = 2

\* C14: tasks are submitted in the order of the sort by (priority,
\* estimated_duration), which is the order of TaskIds: when permits are
\* scarce, a task never obtains its permit before a task that precedes it
\* in that order.
C14_PermitsInSortedOrder ==
    [][max_workers < NumTasks =>
         \A t \in TaskIds :
             task[t].pc = "pending" /\ task'[t].pc # "pending" =>
                 \A u \in TaskIds : u < t => task[u].pc # "pending"]_vars


----------------------------------------------------------------------------
\* The orders in which the results of a list can have completed.
CompletionOrders(rs) ==
    { [k \in 1..Len(rs) |-> rs[p[k]]] : p \in Permutations(1..Len(rs)) }

\* The results whose artifact _merge_results_intelligent keeps.
Kept(rs) == { k \in 1..Len(rs) : rs[k].success /\ rs[k].ui_content # <<>> }

\* C15: the merged document holds the artifacts of the successful results,
\* each once, in ascending order of the task ids (compared as the strings
\* they are), and merging gives the same outcome for every order in which
\* the same results can have completed.
C15_MergeIsOrderIndependent ==
    gen.pc \in {"executed", "returned", "fallback", "raised"}
        /\ gen.error_from \in {"none", "merging"}
        /\ gen.chunks > 0 =>
      LET merged == MergeResultsIntelligent(gen.results) IN
      /\ \A rs \in CompletionOrders(gen.results) :
            MergeResultsIntelligent(rs) = merged
      /\ gen.outcome = "final_ui" =>
           /\ gen.document = merged
           /\ Len(merged.parts) = Cardinality(Kept(gen.results))
           /\ \A k \in Kept(gen.results) :
                \E j \in 1..Len(merged.parts) :
                    merged.parts[j] = Artifact(gen.results[k].task_id)
           /\ \A j, k \in 1..Len(merged.parts) :
                j < k => StrLess(TaskIdText(merged.parts[j][1]),
                                 TaskIdText(merged.parts[k][1]))

\* Three chunks completed out of order, one of them failed: the document
\* has the two artifacts in task id order.
C15_MergedOutOfOrder ==
    /\ gen.outcome = "final_ui"
    /\ Len(gen.results) = 3
    /\ gen.results[1].task_id = 2
    /\ gen.results[3].task_id = 0
    /\ ~gen.results[2].success
    /\ gen.document.parts = <<Artifact(0), Artifact(2)>>

----------------------------------------------------------------------------
\* _merge_results_intelligent has been called on gen.results.
MergeCalled == gen.error_from = "merging" \/ gen.outcome = "final_ui"

\* The merge raised its "No successful chunks to merge" and left no document.
MergeFailed ==
    /\ gen.error_from = "merging"
    /\ gen.error = MergeFailedText
    /\ gen.document = NoDocument
    /\ gen.outcome # "final_ui"

----------------------------------------------------------------------------
\* C17: once the merge has failed the request ends with the exception and
\* with nothing else (no fallback is started and no page is returned in
\* its place), while a list with failed tasks and an artifact to merge
\* ends with the merged document.
C17_MergeFailureIsHardFailure ==
    /\ MergeFailed =>
         /\ gen.pc \in {"raised", "caller_done"}
         /\ gen.fallback_runs = 0
         /\ gen.caller_fallback_runs = 0
         /\ gen.pc = "caller_done" => gen.outcome = "raised"
    /\ MergeCalled /\ Kept(gen.results) # {} /\ gen.pc = "caller_done" =>
         gen.outcome = "final_ui"

----------------------------------------------------------------------------
\* C18: when chunking, scheduling or merging has raised, with graceful
\* degradation the sequential fallback runs once, on the chunk list that
\* generate_ui_parallel built; without it the error is raised again and the
\* fallback does not run.
C18_FallbackReusesChunkList ==
    gen.error_from # "none" =>
      IF gen.enable_graceful_degradation
      THEN /\ gen.pc \in {"fallback", "returned", "caller_done"}
           /\ gen.fallback_runs = 1
           /\ gen.pc # "fallback" =>
                gen.fallback_chunks = IntelligentChunks(gen)
      ELSE /\ gen.pc \in {"raised", "caller_done"}
           /\ gen.fallback_runs = 0
           /\ gen.fallback_chunks = NoChunkList

----------------------------------------------------------------------------
(* Properties of the derated limiter (SpecScenario) *)

\* No call has been made on the limiter since its construction.
Fresh ==
    /\ ops = 0
    /\ \A p \in CallerIds : call[p] = IdleCall

\* C20: with tpm_limit = 600 and tpm_safety_margin = 0.5 the token bucket
\* has capacity 300, starts full and refills at 5 tokens per second, and
\* acquire_tokens(400, timeout=1) on the fresh limiter computes a wait of
\* 20 seconds and returns false.
C20_DeratedLimiterRefuses ==
    [][Fresh =>
         /\ token_bucket.capacity = 300
         /\ token_bucket.tokens = 300 * TokenUnit
         /\ token_bucket.refill_rate * Milli = 5 * TokenUnit
         /\ \A p \in CallerIds :
              AcquireTokens(p, 400, 1 * Milli) =>
                /\ LET c == ConsumeBoth(token_bucket, request_bucket, 400, now)
                   IN  /\ ~c.ok
                       /\ RequiredWait(c.tb, c.rb, 400, now).wait = 20 * Milli
                /\ call'[p] = [IdleCall EXCEPT !.result = "false"]]_vars

\* The first call on the derated limiter asked for 400 tokens and was
\* refused at once.
C20_RefusedFourHundred ==
    /\ ops = 1
    /\ token_bucket.capacity = 300
    /\ last_attempt.phase = "immediate"
    /\ last_attempt.estimated_tokens = 400
    /\ ~last_attempt.ok
    /\ \E p \in CallerIds :
         /\ last_attempt.caller = p
         /\ call[p] = [IdleCall EXCEPT !.result = "false"]

----------------------------------------------------------------------------
(* Properties of one bucket (SpecBucket) *)

\* min(capacity, available + elapsed * refill_rate) for the bucket as it is
\* and the time as it is.
AvailableAtAccess ==
    Min(token_bucket.capacity * TokenUnit,
        token_bucket.tokens
            + (now - token_bucket.last_refill) * token_bucket.refill_rate)

\* C21: the refill is lazy and capped.  The passing of time leaves the
\* bucket as it is; every access sees min(capacity, available_before +
\* elapsed * refill_rate), takes its tokens from that amount, and stamps the
\* bucket with the time of the access.  For the bucket of capacity 1000 and
\* rate 100 per second, emptied 5 seconds ago, that amount is 500.
C21_RefillIsLazyAndCapped ==
    [][/\ now' # now => token_bucket' = token_bucket
       /\ BucketRefill \/ BucketUtilization =>
            token_bucket'.tokens = AvailableAtAccess
       /\ \A n \in BucketRequests :
            /\ BucketWaitTime(n) => token_bucket'.tokens = AvailableAtAccess
            /\ BucketConsume(n) =>
                 token_bucket'.tokens =
                     IF AvailableAtAccess >= n * TokenUnit
                     THEN AvailableAtAccess - n * TokenUnit
                     ELSE AvailableAtAccess
       /\ ops' = ops + 1 =>
            /\ token_bucket'.last_refill = now
            /\ (/\ token_bucket.capacity = 1000
                /\ token_bucket.tokens = 0
                /\ now - token_bucket.last_refill = 5 * Milli) =>
                 AvailableAtAccess = 500 * TokenUnit]_vars

\* The full bucket was emptied by consume(1000) at time 0 and accessed
\* again 5 seconds later: it holds 500.
C21_HalfFullAfterFiveSeconds ==
    /\ ops = 2
    /\ now = 5 * Milli
    /\ token_bucket.last_refill = now
    /\ token_bucket.tokens = 500 * TokenUnit

\* C22: a refill with zero elapsed time is a no-op.  Whatever was consumed
\* before, _refill called at the time of the bucket's last access leaves the
\* bucket, and so its available amount, as it was; so does any number of
\* such calls.
C22_RefillAtSameTimeIsNoOp ==
    [][BucketRefill /\ token_bucket.last_refill = now =>
         /\ token_bucket'.tokens = token_bucket.tokens
         /\ token_bucket' = token_bucket]_vars

\* 300 tokens were consumed from the full bucket at time 5 s and the bucket
\* was accessed twice more at that time: it holds 700.
C22_RefilledTwiceAfterConsume ==
    /\ ops = 3
    /\ now = 5 * Milli
    /\ token_bucket.last_refill = now
    /\ token_bucket.tokens = 700 * TokenUnit

----------------------------------------------------------------------------
(* Properties of the backoff (SpecBackoff) *)

\* The retry delay that each error text states, 60 seconds when it states
\* none.
DelayStatedIn(msg) ==
    IF msg = <<"Rate", "limit", "exceeded", "Retry", "after", "20", "seconds">>
    THEN 20 * Milli
    ELSE 60 * Milli

\* C23: handle_rate_limit_error returns the delay stated in the error text,
\* or 60 seconds; with adaptive backoff the value returned is the maximum of
\* that delay and current_backoff as it was, and current_backoff becomes
\* min(max_backoff, 2 * current_backoff); without adaptive backoff the delay
\* is returned and current_backoff is left as it was.
C23_HandleRateLimitError ==
    [][\A msg \in ErrorTexts :
         HandleRateLimitError(msg) =>
           IF adaptive_backoff
           THEN /\ SuggestedWait(msg) = Max(DelayStatedIn(msg), current_backoff)
                /\ current_backoff' = Min(300 * Milli, 2 * current_backoff)
           ELSE /\ SuggestedWait(msg) = DelayStatedIn(msg)
                /\ current_backoff' = current_backoff]_vars

\* A tenth rate-limit error has been handled: the backoff, 256 seconds after
\* the eighth and 300 after the ninth, stays at max_backoff.
C23_BackoffAtMaximum ==
    /\ adaptive_backoff
    /\ metrics.rate_limit_hits = 10
    /\ current_backoff = max_backoff

----------------------------------------------------------------------------
(* Properties of the chunker (SpecChunker) *)

\* create_intelligent_chunks has returned optimized_chunks.
Returned == chunker.pc = "returned"

\* The places of the chunks of the group in optimized_chunks: the chunk_id
\* of a chunk starts with the name of its group.
ChunksOfGroup(group_name) ==
    {i \in 1..Len(chunker.optimized_chunks) :
        chunker.optimized_chunks[i].chunk_id[1] = group_name}

\* The groups of the call, and the endpoints of the argument that belong to
\* a group, in their order.
GroupNames ==
    IF chunker.use_semantic_grouping
    THEN {PrimaryTag(chunker.endpoints[i]) : i \in 1..Len(chunker.endpoints)}
    ELSE {"mixed"}

OperationsOfGroup(group_name) ==
    IF chunker.use_semantic_grouping
    THEN SelectSeq(chunker.endpoints,
                   LAMBDA ep : PrimaryTag(ep) = group_name)
    ELSE chunker.endpoints

RECURSIVE SumEstimatedTokens(_)
SumEstimatedTokens(places) ==
    IF places = {} THEN 0
    ELSE LET i == CHOOSE i \in places : TRUE
         IN  chunker.optimized_chunks[i].estimated_tokens
                 + SumEstimatedTokens(places \ {i})

\* C26: when create_intelligent_chunks has returned, the estimated_tokens of
\* every chunk is the sum of the token_count of its endpoints, and for every
\* group the estimated_tokens of the chunks of the group add up to the
\* token_count of the operations of the group in the argument, whether or
\* not a chunk of the group was split.
C26_PackingConservesTokens ==
    Returned =>
        /\ \A i \in 1..Len(chunker.optimized_chunks) :
               chunker.optimized_chunks[i].estimated_tokens
                   = SumTokenCount(chunker.optimized_chunks[i].endpoints)
        /\ \A g \in GroupNames :
               SumEstimatedTokens(ChunksOfGroup(g))
                   = SumTokenCount(OperationsOfGroup(g))

\* The chunk of "users", of 2 + 2 + 6 tokens, was split into a half of 2
\* tokens and a half of 8, beside a chunk of another group.
C26_SplitInTwoUnevenHalves ==
    /\ Returned
    /\ Len(chunker.optimized_chunks) = 3
    /\ \E i, j \in ChunksOfGroup("users") :
           /\ chunker.optimized_chunks[i].chunk_id = <<"users", 0, "part1">>
           /\ chunker.optimized_chunks[i].estimated_tokens = 2
           /\ chunker.optimized_chunks[j].chunk_id = <<"users", 0, "part2">>
           /\ chunker.optimized_chunks[j].estimated_tokens = 8

\* The chunk is one of the last chunk that _create_balanced_chunks made for
\* its group (the chunk itself, or a half of it): the counter in its
\* chunk_id is the highest of the group.
IsFinalChunkOfGroup(chunk) ==
    \A i \in ChunksOfGroup(chunk.chunk_id[1]) :
        chunker.optimized_chunks[i].chunk_id[2] <= chunk.chunk_id[2]

\* The chunk was closed because the token_count of the next endpoint of its
\* group (the first endpoint of the next chunk of the group) would have
\* taken it over max_tokens_per_chunk.
ClosedByTokenLimit(chunk) ==
    \E i \in ChunksOfGroup(chunk.chunk_id[1]) :
        LET next == chunker.optimized_chunks[i]
        IN  /\ next.chunk_id[2] = chunk.chunk_id[2] + 1
            /\ Len(next.chunk_id) = 3 => next.chunk_id[3] = "part1"
            /\ chunk.estimated_tokens + next.endpoints[1].token_count
                   > chunker.self.max_tokens_per_chunk

\* C27: when create_intelligent_chunks has returned, every chunk that is
\* not the final chunk of its group has at least min_endpoints_per_chunk
\* and at most max_endpoints_per_chunk endpoints.
C27_NonFinalChunkWithinBounds ==
    Returned =>
        \A i \in 1..Len(chunker.optimized_chunks) :
            LET chunk == chunker.optimized_chunks[i]
            IN  ~IsFinalChunkOfGroup(chunk) =>
                    /\ Len(chunk.endpoints)
                           >= chunker.self.min_endpoints_per_chunk
                    /\ Len(chunk.endpoints)
                           <= chunker.self.max_endpoints_per_chunk

\* C27, as amended: when create_intelligent_chunks has returned, every chunk
\* has at least one and at most max_endpoints_per_chunk endpoints, and a
\* chunk that is not the final chunk of its group has fewer than
\* min_endpoints_per_chunk endpoints only if the next endpoint of its group
\* would have taken it over max_tokens_per_chunk.
C27_BelowMinimumOnlyAtTokenLimit ==
    Returned =>
        \A i \in 1..Len(chunker.optimized_chunks) :
            LET chunk == chunker.optimized_chunks[i]
            IN  /\ Len(chunk.endpoints) >= 1
                /\ Len(chunk.endpoints)
                       <= chunker.self.max_endpoints_per_chunk
                /\ Len(chunk.endpoints)
                       < chunker.self.min_endpoints_per_chunk
                   => \/ IsFinalChunkOfGroup(chunk)
                      \/ ClosedByTokenLimit(chunk)

\* A chunk of one endpoint of 6 tokens is followed in its group by a chunk
\* of an endpoint of 6 tokens, the minimum being 2 endpoints and the
\* maximum 10 tokens; another group has a chunk that is full at 2 endpoints.
C27_ClosedEarlyAndClosedFull ==
    /\ Returned
    /\ chunker.self = Settings(6, 10, 2, 2)
    /\ \E i, j \in ChunksOfGroup("users") :
           /\ chunker.optimized_chunks[i].chunk_id = <<"users", 0>>
           /\ Len(chunker.optimized_chunks[i].endpoints) = 1
           /\ chunker.optimized_chunks[i].estimated_tokens = 6
           /\ chunker.optimized_chunks[j].chunk_id = <<"users", 1>>
    /\ \E i, j \in ChunksOfGroup("admin") :
           /\ chunker.optimized_chunks[i].chunk_id = <<"admin", 0>>
           /\ Len(chunker.optimized_chunks[i].endpoints) = 2
           /\ chunker.optimized_chunks[j].chunk_id = <<"admin", 1>>

\* C28: when create_intelligent_chunks has returned, the estimated_tokens of
\* no chunk is above max_tokens_per_chunk.
C28_NoChunkOverMaxTokens ==
    Returned =>
        \A i \in 1..Len(chunker.optimized_chunks) :
            chunker.optimized_chunks[i].estimated_tokens
                <= chunker.self.max_tokens_per_chunk

\* The places <<i, j>> of an endpoint in the chunks: the j-th endpoint of
\* the i-th chunk is the endpoint `id' of the argument.
PlacesOf(id) ==
    {p \in UNION {{<<i, j>> : j \in 1..Len(chunker.optimized_chunks[i].endpoints)} :
                     i \in 1..Len(chunker.optimized_chunks)} :
        chunker.optimized_chunks[p[1]].endpoints[p[2]].id = id}

RECURSIVE SumEndpointCount(_)
SumEndpointCount(chunks) ==
    IF chunks = <<>> THEN 0
    ELSE Len(Head(chunks).endpoints) + SumEndpointCount(Tail(chunks))

\* C29: when create_intelligent_chunks has returned, every endpoint of the
\* argument is in one chunk, at one place; no chunk is empty; the
\* endpoint counts of the chunks add up to the number of endpoints of the
\* argument; and a group of n endpoints has at least
\* ceil(n / max_endpoints_per_chunk) chunks, each of at most
\* max_endpoints_per_chunk endpoints, all of them endpoints of the group.
C29_ChunksPartitionTheOperations ==
    Returned =>
        /\ \A id \in 1..Len(chunker.endpoints) : Cardinality(PlacesOf(id)) = 1
        /\ \A i \in 1..Len(chunker.optimized_chunks) :
               chunker.optimized_chunks[i].endpoints # <<>>
        /\ SumEndpointCount(chunker.optimized_chunks) = Len(chunker.endpoints)
        /\ \A g \in GroupNames :
               LET n == Len(OperationsOfGroup(g))
                   max_endpoints == chunker.self.max_endpoints_per_chunk
               IN  /\ Cardinality(ChunksOfGroup(g)) * max_endpoints >= n
                   /\ Cardinality(ChunksOfGroup(g))
                          >= (n + max_endpoints - 1) \div max_endpoints
                   /\ \A i \in ChunksOfGroup(g) :
                          LET chunk == chunker.optimized_chunks[i]
                          IN  /\ Len(chunk.endpoints) <= max_endpoints
                              /\ chunker.use_semantic_grouping =>
                                     \A j \in 1..Len(chunk.endpoints) :
                                         PrimaryTag(chunk.endpoints[j]) = g

\* The seven endpoints of "users" are in two chunks, of 4 and 3 endpoints,
\* and the three of "admin" in one.
C29_SevenAndThreeInThreeChunks ==
    /\ Returned
    /\ chunker.self.max_endpoints_per_chunk = 4
    /\ Len(chunker.endpoints) = 10
    /\ Len(OperationsOfGroup("users")) = 7
    /\ Cardinality(ChunksOfGroup("users")) = 2
    /\ Cardinality(ChunksOfGroup("admin")) = 1
    /\ \E i \in ChunksOfGroup("users") :
           Len(chunker.optimized_chunks[i].endpoints) = 4

\* C30: in every result that as_completed has handed to
\* _execute_tasks_parallel and in every result of the list it returns,
\* ui_content is present (not None) exactly when success is true and error
\* is present exactly when success is false.  A successful result may carry
\* the empty string.
C30_ContentIffSuccessErrorIffFailure ==
    \A results \in {completed_results, sched.returned} :
        \A i \in 1..Len(results) :
            /\ results[i].ui_content # None <=> results[i].success
            /\ results[i].error # None <=> ~results[i].success

\* The returned list holds a successful result whose content is the empty
\* string and a failed result with the text of its error.
C30_EmptyContentAndFailureReturned ==
    /\ sched.pc = "returned"
    /\ \E i, j \in 1..Len(sched.returned) :
           /\ sched.returned[i].success
           /\ sched.returned[i].ui_content = <<>>
           /\ sched.returned[i].error = None
           /\ ~sched.returned[j].success
           /\ sched.returned[j].ui_content = None
           /\ sched.returned[j].error = AcquireFailedText

----------------------------------------------------------------------------
(* Properties of the schema scoring (SpecScoring) *)

\* C31: the call of _analyze_schema_complexity never ends with
\* RecursionError, and no dict of the schema is entered a second time
\* during the call (a dict reached again adds nothing and is not descended
\* into).
C31_ScoringTerminatesAndEntersOnce ==
    /\ scoring.pc # "raised"
    /\ scoring.pc # "none" =>
           \A id \in SchemaIds : scoring.entered[id] <= 1

\* C32: when the immediate consume of an acquire_tokens call fails, the
\* wait of the call is max(token_bucket.wait_time(estimated_tokens),
\* request_bucket.wait_time(1)) on the buckets as they were when the call
\* began, raised to current_backoff when adaptive_backoff is set: the call
\* returns False when that wait exceeds its timeout and sleeps for that
\* wait otherwise.
C32_WaitIsComputedOnLevelsAtCall ==
    [][\A p \in CallerIds, n \in TokenRequests, timeout \in Timeouts :
          /\ AcquireTokens(p, n, timeout)
          /\ ~ConsumeBoth(token_bucket, request_bucket, n, now).ok
          => LET w == RequiredWait(token_bucket, request_bucket, n, now).wait
             IN  IF w > timeout
                 THEN call'[p].result = "false"
                 ELSE /\ call'[p].pc = "sleeping"
                      /\ call'[p].required_wait = w]_vars

\* C33: a call that has slept makes one more consume attempt and returns its outcome (True when both buckets gave, False otherwise) without sleeping again; with adaptive_backoff set, a successful retry sets current_backoff to max(1 s, 0.8 * current_backoff) and a failed retry sets it to min(300 s, 2 * current_backoff); without adaptive_backoff the retry leaves current_backoff alone.
C33_RetryOnceAndAdjustBackoff ==
    [][\A p \in CallerIds :
          call[p].pc = "sleeping" /\ call'[p] # call[p]
          => LET n  == call[p].estimated_tokens
                 tb == Refill(token_bucket, now)
                 rb == Refill(request_bucket, now)
                 ok == tb.tokens >= n * TokenUnit /\ rb.tokens >= TokenUnit
             IN  /\ call'[p].pc = "idle"
                 /\ call'[p].result = IF ok THEN "true" ELSE "false"
                 /\ last_attempt'.caller = p
                 /\ last_attempt'.phase = "retry"
                 /\ ~adaptive_backoff => current_backoff' = current_backoff
                 /\ adaptive_backoff /\ ok =>
                      /\ current_backoff' * 10 <= current_backoff * 8
                         \/ current_backoff' = 1 * Milli
                      /\ current_backoff' >= 1 * Milli
                      /\ current_backoff' * 10 > current_backoff * 8 - 10
                         \/ current_backoff' = 1 * Milli
                 /\ adaptive_backoff /\ ~ok =>
                      current_backoff' =
                        IF current_backoff * 2 < 300 * Milli
                        THEN current_backoff * 2 ELSE 300 * Milli]_vars

\* A retry succeeded with the backoff lowered but still above its floor.
C33_RetrySucceededBackoffLowered ==
    /\ last_attempt.phase = "retry"
    /\ last_attempt.ok
    /\ adaptive_backoff
    /\ current_backoff > base_backoff
    /\ current_backoff % (2 * Milli) # 0

\* The chunks that _create_balanced_chunks has made for the group, in the
\* order it made them, and the endpoints it was given for the group.
BuiltChunks(group_name) ==
    SelectSeq(chunker.chunks, LAMBDA c : c.chunk_id[1] = group_name)

BuiltGroups == {chunker.chunks[i].chunk_id[1] : i \in 1..Len(chunker.chunks)}

GivenEndpoints(group_name) ==
    IF chunker.use_semantic_grouping
    THEN SelectSeq(chunker.analyzed_endpoints,
                   LAMBDA ep : PrimaryTag(ep) = group_name)
    ELSE chunker.analyzed_endpoints

RECURSIVE ScannedEndpoints(_)
ScannedEndpoints(chunks) ==
    IF chunks = <<>> THEN <<>>
    ELSE Head(chunks).endpoints \o ScannedEndpoints(Tail(chunks))

\* The test the claim gives for closing a running chunk of `count' members
\* before an endpoint that takes its token sum to `projected'.
ClosesBefore(projected, count) ==
    /\ count > 0
    /\ \/ projected > chunker.self.max_tokens_per_chunk
       \/ /\ projected > chunker.self.target_tokens_per_chunk
          /\ count >= chunker.self.min_endpoints_per_chunk
       \/ count >= chunker.self.max_endpoints_per_chunk

\* C34: the chunks made for a group hold the endpoints of the group in the order of (priority, -complexity_score), equal keys in the order given, each endpoint once and the last ones too (the last partial chunk is emitted); a chunk begins at an endpoint other than the first exactly when the running chunk is non-empty and the projected token sum exceeds max_tokens_per_chunk, or it exceeds target_tokens_per_chunk with at least min_endpoints_per_chunk members, or the members have reached max_endpoints_per_chunk.
C34_ChunkClosedExactlyOnTheTest ==
    \A g \in BuiltGroups :
        LET built   == BuiltChunks(g)
            scanned == ScannedEndpoints(built)
            given   == GivenEndpoints(g)
        IN  /\ Len(scanned) = Len(given)
            /\ \A i \in 1..Len(given) :
                   \E j \in 1..Len(scanned) : scanned[j] = given[i]
            /\ \A i, j \in 1..Len(scanned) :
                   i < j =>
                     \/ scanned[i].priority < scanned[j].priority
                     \/ /\ scanned[i].priority = scanned[j].priority
                        /\ scanned[i].complexity_score
                               > scanned[j].complexity_score
                     \/ /\ scanned[i].priority = scanned[j].priority
                        /\ scanned[i].complexity_score
                               = scanned[j].complexity_score
                        /\ scanned[i].id < scanned[j].id
            /\ \A c \in 1..Len(built) :
                   /\ built[c].chunk_id = <<g, c - 1>>
                   /\ built[c].endpoints # <<>>
                   /\ \A k \in 2..Len(built[c].endpoints) :
                          ~ClosesBefore(
                              SumTokenCount(SubSeq(built[c].endpoints, 1, k)),
                              k - 1)
                   /\ c > 1 =>
                          ClosesBefore(
                              SumTokenCount(built[c - 1].endpoints)
                                  + built[c].endpoints[1].token_count,
                              Len(built[c - 1].endpoints))

\* A group got a chunk that took a second endpoint past
\* target_tokens_per_chunk, being below min_endpoints_per_chunk, and was
\* then closed on the target clause alone, and a last chunk after it; the
\* endpoints of the group were not given in their sorted order.
C34_ClosedOnTargetAfterMinimum ==
    \E g \in BuiltGroups :
        LET built == BuiltChunks(g)
        IN  /\ Len(built) >= 2
            /\ ScannedEndpoints(built) # GivenEndpoints(g)
            /\ Len(built[1].endpoints) >= 2
            /\ SumTokenCount(SubSeq(built[1].endpoints, 1, 2))
                   > chunker.self.target_tokens_per_chunk
            /\ Len(built[1].endpoints) < chunker.self.max_endpoints_per_chunk
            /\ SumTokenCount(built[1].endpoints)
                   + built[2].endpoints[1].token_count
                   <= chunker.self.max_tokens_per_chunk

\* What the post-pass is to make of a chunk of the builder: the chunk is in
\* optimized_chunks as it was, or its two halves are there, one behind the
\* other, and the chunk is not.
IsLarge(chunk) ==
    /\ chunk.estimated_tokens * 10 > chunker.self.max_tokens_per_chunk * 9
    /\ Len(chunk.endpoints) > 2 * chunker.self.min_endpoints_per_chunk

LeftUnchanged(chunk) ==
    \E i \in 1..Len(chunker.optimized_chunks) :
        chunker.optimized_chunks[i] = chunk

ReplacedByHalves(chunk) ==
    /\ ~LeftUnchanged(chunk)
    /\ \E i \in 1..(Len(chunker.optimized_chunks) - 1) :
         LET part1 == chunker.optimized_chunks[i]
             part2 == chunker.optimized_chunks[i + 1]
         IN  /\ part1.chunk_id = Append(chunk.chunk_id, "part1")
             /\ part2.chunk_id = Append(chunk.chunk_id, "part2")
             /\ part1.endpoints \o part2.endpoints = chunk.endpoints
             /\ Len(part1.endpoints) = Len(chunk.endpoints) \div 2

LargeChunks == {i \in 1..Len(chunker.chunks) : IsLarge(chunker.chunks[i])}

\* C35: when create_intelligent_chunks has returned, every chunk of the builder with estimated_tokens > 0.9 * max_tokens_per_chunk and more than 2 * min_endpoints_per_chunk endpoints has been replaced by its first half and its second half (ids ending in part1 and part2), every other chunk is in the result unchanged, nothing else is in the result and no half has been split again, whatever the number of chunks of the builder, one included.
C35_EveryLargeChunkIsSplitOnce ==
    Returned =>
        /\ \A i \in 1..Len(chunker.chunks) :
               IF IsLarge(chunker.chunks[i])
               THEN ReplacedByHalves(chunker.chunks[i])
               ELSE LeftUnchanged(chunker.chunks[i])
        /\ Len(chunker.optimized_chunks)
               = Len(chunker.chunks) + Cardinality(LargeChunks)
        /\ \A i \in 1..Len(chunker.optimized_chunks) :
               Len(chunker.optimized_chunks[i].chunk_id) <= 3

\* The level of a bucket at time t, and what the step granted: the
\* estimated_tokens of the acquire_tokens call that returned True in the
\* step (0 when none did) and the number of such calls.
LevelAt(b, t) == Refill(b, t).tokens

AcquireReturned ==
    \/ ops' = ops + 1
    \/ \E p \in CallerIds : call[p].pc = "sleeping" /\ call'[p].pc = "idle"

GrantedInStep ==
    IF AcquireReturned /\ last_attempt'.ok
       /\ call'[last_attempt'.caller].result = "true"
    THEN [tokens |-> last_attempt'.estimated_tokens, requests |-> 1]
    ELSE [tokens |-> 0, requests |-> 0]

\* C36: in every step, under any interleaving of the callers, what the token bucket holds after the step plus the estimated_tokens granted in the step is at most what it held before plus refill_rate times the time passed, and likewise for the request bucket and the number of calls granted; summed over the steps of an interval, the grants of the interval are at most the starting level plus the refill of the interval.
C36_GrantsWithinLevelPlusRefill ==
    [][/\ LevelAt(token_bucket', now') + GrantedInStep.tokens * TokenUnit
              <= LevelAt(token_bucket, now)
                     + token_bucket.refill_rate * (now' - now)
       /\ LevelAt(request_bucket', now') + GrantedInStep.requests * TokenUnit
              <= LevelAt(request_bucket, now)
                     + request_bucket.refill_rate * (now' - now)
       /\ AcquireReturned /\ call'[last_attempt'.caller].result = "true"
              => last_attempt'.ok]_vars

\* Both callers have been granted tokens, the last of them after a sleep,
\* and the grants add up to more than the token bucket holds when full.
C36_GrantsBeyondCapacity ==
    /\ \A p \in CallerIds : call[p].result = "true"
    /\ last_attempt.phase = "retry"
    /\ metrics.successful_requests >= 2
    /\ metrics.tokens_used > token_bucket.capacity

\* C37: in every reachable state current_backoff is at least 1 s and at most 300 s, whatever acquire_tokens, handle_rate_limit_error and reset_metrics calls were made and however they interleaved.
C37_BackoffWithinBounds ==
    /\ current_backoff >= 1 * Milli
    /\ current_backoff <= 300 * Milli

\* handle_rate_limit_error was called with the backoff at or next to its
\* ceiling, where doubling it would have passed 300 s, on a limiter that has
\* also granted an acquire_tokens call.
C37_BackoffAtCeilingAfterCalls ==
    /\ adaptive_backoff
    /\ current_backoff = max_backoff
    /\ metrics.rate_limit_hits > MaxHandledErrors
    /\ last_attempt.ok
    /\ metrics.successful_requests >= 1

ReturnedInTime == sched.pc = "returned" /\ ~sched.deadline_elapsed

\* C39: when the deadline does not elapse and every call a task awaits returns, _execute_tasks_parallel returns in the end, and when it has returned it has returned one result for each task (as many results as tasks, with pairwise distinct task ids, those of the tasks) and every permit of the semaphore is free.
C39_BatchReturnsOneResultPerTask ==
    /\ <>ReturnedInTime
    /\ [](ReturnedInTime =>
            /\ Len(sched.returned) = NumTasks
            /\ \A i, j \in 1..Len(sched.returned) :
                   i # j => sched.returned[i].task_id
                                # sched.returned[j].task_id
            /\ \A t \in TaskIds :
                   \E i \in 1..Len(sched.returned) :
                       sched.returned[i].task_id = t
            /\ api_semaphore = max_workers)

\* A batch run with one permit returned in time with a successful result
\* and a failed one, one of them made by a later attempt than the first.
C39_ReturnedInTimeAfterRetry ==
    /\ ReturnedInTime
    /\ max_workers = 1
    /\ api_semaphore = max_workers
    /\ \E i, j \in 1..Len(sched.returned) :
           /\ sched.returned[i].success
           /\ ~sched.returned[j].success
    /\ \E i \in 1..Len(sched.returned) : sched.returned[i].retry_count > 0

\* C40: in the document that generate_ui_parallel returns, the artifacts stand in the order of their chunks in the chunk list: an artifact of the chunk at position i comes before an artifact of the chunk at position j whenever i < j, for any number of chunks.
C40_ArtifactsInChunkOrder ==
    gen.outcome = "final_ui" =>
        \A a, b \in 1..Len(gen.document.parts) :
            a < b => gen.document.parts[a][1] < gen.document.parts[b][1]
=============================================================================
